---------------------------- MODULE Spec2Model ----------------------------
(***************************************************************************)
(* A model of the CFEngine promise evaluation core: the edit-line engine   *)
(* (cf-agent/files_editline.c), the edit context and the file-change       *)
(* tracker (files_edit.c, files_changes.c) and the package-module protocol *)
(* (cf-agent/package_module.c).                                            *)
(*                                                                         *)
(* Text is modelled as sequences of one-character strings, a file as a     *)
(* sequence of lines, and a pointer into the line list as an index into    *)
(* that sequence (0 is the NULL pointer).                                  *)
(***************************************************************************)
EXTENDS Integers, Sequences, FiniteSets, TLC

(***************************************************************************)
(* Promise outcomes.                                                       *)
(***************************************************************************)
NOOP == "NOOP"
CHANGE == "CHANGE"
WARN == "WARN"
FAIL == "FAIL"
INTERRUPTED == "INTERRUPTED"
SKIPPED == "SKIPPED"
PromiseResults == {NOOP, CHANGE, WARN, FAIL, INTERRUPTED, SKIPPED}

\* PromiseResultUpdate(prior, evidence): the combined outcome of a promise
\* whose outcome so far is prior and whose next sub-operation gave evidence.
PromiseResultUpdate(prior, evidence) ==
    CASE prior \in {FAIL, INTERRUPTED} -> prior
      [] prior = WARN -> IF evidence \in {FAIL, INTERRUPTED, WARN} THEN evidence ELSE prior
      [] prior = SKIPPED -> evidence
      [] prior = NOOP -> IF evidence = SKIPPED THEN prior ELSE evidence
      [] prior = CHANGE -> IF evidence \in {FAIL, INTERRUPTED, WARN} THEN evidence ELSE prior

\* Severity order of outcomes, least severe first.
Severity(r) ==
    CASE r = SKIPPED -> 0
      [] r = NOOP -> 1
      [] r = CHANGE -> 2
      [] r = WARN -> 3
      [] r = FAIL -> 4
      [] r = INTERRUPTED -> 4

\* MakingChanges(): true when the agent may change the system; in dry-run
\* mode it only reports and the promise outcome becomes WARN.
MakingChanges(dry) == ~dry
MakingChangesResult(dry, result) ==
    IF dry THEN PromiseResultUpdate(result, WARN) ELSE result

(***************************************************************************)
(* Strings and regular expressions.                                        *)
(***************************************************************************)
IsSpace(c) == c = " "

Max2(x, y) == IF x > y THEN x ELSE y
Min2(x, y) == IF x < y THEN x ELSE y

\* The C-string suffix s + off (off counted from 0).
Tail0(s, off) == SubSeq(s, off + 1, Len(s))

\* An atom of a regular expression at position i: [kind, c, w] where w is
\* the width of the atom in characters.
RegexAtom(re, i) ==
    IF re[i] = "\\" /\ i < Len(re)
    THEN IF re[i + 1] = "s"
         THEN [kind |-> "space", c |-> " ", w |-> 2]
         ELSE [kind |-> "lit", c |-> re[i + 1], w |-> 2]
    ELSE IF re[i] = "."
         THEN [kind |-> "any", c |-> ".", w |-> 1]
         ELSE [kind |-> "lit", c |-> re[i], w |-> 1]

AtomAccepts(atom, c) ==
    CASE atom.kind = "space" -> IsSpace(c)
      [] atom.kind = "any" -> TRUE
      [] OTHER -> c = atom.c

\* Number of consecutive characters of s from offset j that atom accepts.
RECURSIVE AtomRun(_, _, _)
AtomRun(atom, s, j) ==
    IF j < Len(s) /\ AtomAccepts(atom, s[j + 1])
    THEN 1 + AtomRun(atom, s, j + 1)
    ELSE 0

\* The match of re[i..] against s at offset j that a backtracking matcher
\* with greedy quantifiers finds first: the end offset, or -1 for no match.
RECURSIVE MatchFrom(_, _, _, _)
RECURSIVE MatchGreedy(_, _, _, _, _, _)
MatchFrom(re, i, s, j) ==
    IF i > Len(re) THEN j
    ELSE IF re[i] = "^" /\ i = 1
    THEN IF j = 0 THEN MatchFrom(re, i + 1, s, j) ELSE -1
    ELSE IF re[i] = "$" /\ i = Len(re)
    THEN IF j = Len(s) THEN j ELSE -1
    ELSE LET atom == RegexAtom(re, i)
             q == IF i + atom.w <= Len(re) /\ re[i + atom.w] \in {"*", "+"}
                  THEN re[i + atom.w] ELSE ""
         IN IF q = ""
            THEN IF j < Len(s) /\ AtomAccepts(atom, s[j + 1])
                 THEN MatchFrom(re, i + atom.w, s, j + 1)
                 ELSE -1
            ELSE MatchGreedy(re, i + atom.w + 1, s, j,
                             AtomRun(atom, s, j), IF q = "+" THEN 1 ELSE 0)

MatchGreedy(re, inext, s, j, k, kmin) ==
    IF k < kmin THEN -1
    ELSE LET e == MatchFrom(re, inext, s, j + k)
         IN IF e # -1 THEN e ELSE MatchGreedy(re, inext, s, j, k - 1, kmin)

\* BlockTextMatch(): search s for the leftmost match of re.
RECURSIVE SearchFrom(_, _, _)
SearchFrom(re, s, j) ==
    IF j > Len(s) THEN [found |-> FALSE, s |-> 0, e |-> 0]
    ELSE LET e == MatchFrom(re, 1, s, j)
         IN IF e # -1 THEN [found |-> TRUE, s |-> j, e |-> e]
            ELSE SearchFrom(re, s, j + 1)

BlockTextMatch(re, s) == SearchFrom(re, s, 0)

\* FullTextMatch(): the leftmost match of re spans all of s.
FullTextMatch(re, s) ==
    LET m == BlockTextMatch(re, s)
    IN m.found /\ m.s = 0 /\ m.e = Len(s)

RegexSpecials == {".", "*", "+", "^", "$", "\\"}

\* EscapeRegexChars(): a regular expression that matches s literally.
RECURSIVE EscapeRegexChars(_)
EscapeRegexChars(s) ==
    IF s = <<>> THEN <<>>
    ELSE (IF Head(s) \in RegexSpecials THEN <<"\\", Head(s)>> ELSE <<Head(s)>>)
         \o EscapeRegexChars(Tail(s))


(***************************************************************************)
(* The line list of an edit context.  A promiser that holds several lines  *)
(* separated by newlines is modelled as the sequence of those lines.       *)
(***************************************************************************)
NULL == 0

\* ip->next for the item at index ip of list.
NextItem(list, ip) == IF ip # NULL /\ ip < Len(list) THEN ip + 1 ELSE NULL

\* The list with line inserted so that it becomes the item at index k.
InsertAt(list, k, line) ==
    SubSeq(list, 1, k - 1) \o <<line>> \o SubSeq(list, k, Len(list))

\* The list without the item at index k.
RemoveAt(list, k) == SubSeq(list, 1, k - 1) \o SubSeq(list, k + 1, Len(list))

\* A pointer to an item after a new item was linked in at index k.
Moved(p, k) == IF k # NULL /\ p # NULL /\ p >= k THEN p + 1 ELSE p

\* PrependItemList(): the new item becomes the head of the list.
PrependIndex(list) == 1

\* InsertAfter(): the new item follows ptr; with an empty list or a NULL
\* ptr it is appended.
InsertAfterIndex(list, ptr) ==
    IF list = <<>> \/ ptr = NULL THEN Len(list) + 1 ELSE ptr + 1

(***************************************************************************)
(* SelectRegion: pointers to the first and last line of the region.        *)
(***************************************************************************)
RECURSIVE FirstMatchFrom(_, _, _)
FirstMatchFrom(list, regex, i) ==
    IF i = NULL \/ i > Len(list) THEN NULL
    ELSE IF FullTextMatch(regex, list[i]) THEN i
    ELSE FirstMatchFrom(list, regex, i + 1)

SelectRegion(start, a) ==
    LET beg == IF a.select_start # <<>> THEN FirstMatchFrom(start, a.select_start, 1)
               ELSE NULL
        end == IF a.select_end # <<>> /\ beg # NULL
               THEN FirstMatchFrom(start, a.select_end, beg + 1)
               ELSE NULL
    IN IF a.select_start # <<>> /\ beg # NULL /\ ~a.include_start /\ beg = Len(start)
       THEN [ok |-> FALSE, begin_ptr |-> NULL, end_ptr |-> NULL]
       ELSE IF beg = NULL /\ a.select_start # <<>>
       THEN [ok |-> FALSE, begin_ptr |-> NULL, end_ptr |-> NULL]
       ELSE [ok |-> TRUE, begin_ptr |-> beg, end_ptr |-> end]

(***************************************************************************)
(* MatchRegion: the number of lines of chunk matched at begin, 0 for no    *)
(* match; the marked terminator end is never part of a match.              *)
(***************************************************************************)
RECURSIVE MatchRegionFrom(_, _, _, _, _, _)
MatchRegionFrom(list, chunk, k, ip, end, regex) ==
    IF ip = NULL THEN 0
    ELSE IF ~regex /\ chunk[k] # list[ip] THEN 0
    ELSE IF regex /\ ~FullTextMatch(chunk[k], list[ip]) THEN 0
    ELSE IF ip = end THEN 0
    ELSE IF NextItem(list, ip) # NULL
         THEN IF k = Len(chunk) THEN k
              ELSE MatchRegionFrom(list, chunk, k + 1, NextItem(list, ip), end, regex)
         ELSE IF k < Len(chunk) THEN 0 ELSE k

MatchRegion(list, chunk, begin, end, regex) ==
    MatchRegionFrom(list, chunk, 1, begin, end, regex)

(***************************************************************************)
(* SelectLine: the line selection filters of a promise.                    *)
(***************************************************************************)
StartsWith(selector, line) ==
    Len(selector) <= Len(line) /\ SubSeq(line, 1, Len(selector)) = selector

SelectLine(line, a) ==
    LET ls == a.line_select
    IN IF ls.startwith_from_list # <<>>
       THEN \E i \in DOMAIN ls.startwith_from_list :
                StartsWith(ls.startwith_from_list[i], line)
       ELSE IF ls.not_startwith_from_list # <<>>
       THEN ~\E i \in DOMAIN ls.not_startwith_from_list :
                StartsWith(ls.not_startwith_from_list[i], line)
       ELSE IF ls.match_from_list # <<>>
       THEN \E i \in DOMAIN ls.match_from_list :
                FullTextMatch(ls.match_from_list[i], line)
       ELSE IF ls.not_match_from_list # <<>>
       THEN ~\E i \in DOMAIN ls.not_match_from_list :
                FullTextMatch(ls.not_match_from_list[i], line)
       ELSE IF ls.contains_from_list # <<>>
       THEN \E i \in DOMAIN ls.contains_from_list :
                BlockTextMatch(ls.contains_from_list[i], line).found
       ELSE IF ls.not_contains_from_list # <<>>
       THEN ~\E i \in DOMAIN ls.not_contains_from_list :
                BlockTextMatch(ls.not_contains_from_list[i], line).found
       ELSE TRUE

\* SanityCheckInsertions: at most one negative filter, no mix of positive
\* and negative filters, exact_match not mixed with an ignore policy, and
\* no whitespace policy with preserve_block.
SanityCheckInsertions(a) ==
    LET ls == a.line_select
        with == (IF ls.startwith_from_list # <<>> THEN 1 ELSE 0)
                + (IF ls.match_from_list # <<>> THEN 1 ELSE 0)
                + (IF ls.contains_from_list # <<>> THEN 1 ELSE 0)
        not == (IF ls.not_startwith_from_list # <<>> THEN 1 ELSE 0)
               + (IF ls.not_match_from_list # <<>> THEN 1 ELSE 0)
               + (IF ls.not_contains_from_list # <<>> THEN 1 ELSE 0)
        exact == \E i \in DOMAIN a.insert_match : a.insert_match[i] = "exact_match"
        ignore_something ==
            \E i \in DOMAIN a.insert_match : a.insert_match[i] # "exact_match"
    IN /\ ~(not > 1)
       /\ ~(with > 0 /\ not > 0)
       /\ ~(ignore_something /\ a.sourcetype = "preserve_block")
       /\ ~(exact /\ ignore_something)

(***************************************************************************)
(* MatchPolicy: does the promised line camel match the file line haystack  *)
(* under the whitespace policies insert_match.  ctx.ub is the outcome of   *)
(* the comparison that reads before the start of a buffer shorter than     *)
(* four characters.                                                        *)
(***************************************************************************)
SpaceAtom == [kind |-> "space", c |-> " ", w |-> 2]

\* Offset of the first character that is not white space.
FirstChar(final) == AtomRun(SpaceAtom, final, 0)

\* Offset of the last character, stepping back over white space but not
\* past firstchar.
RECURSIVE LastChar(_, _, _)
LastChar(final, l, firstchar) ==
    IF l > firstchar /\ IsSpace(final[l + 1]) THEN LastChar(final, l - 1, firstchar)
    ELSE l

RECURSIVE IgnoreEmbedded(_, _, _, _)
IgnoreEmbedded(final, sp, firstchar, lastchar) ==
    IF sp >= Len(final) THEN <<>>
    ELSE IF sp > firstchar /\ sp < lastchar /\ IsSpace(final[sp + 1])
    THEN <<"\\", "s", "+">>
         \o IgnoreEmbedded(final, sp + 1 + AtomRun(SpaceAtom, final, sp + 1),
                           firstchar, lastchar)
    ELSE <<final[sp + 1]>> \o IgnoreEmbedded(final, sp + 1, firstchar, lastchar)

IgnoreLeading(final) ==
    IF Len(final) >= 3 /\ SubSeq(final, 1, 3) = <<"\\", "s", "*">> THEN final
    ELSE <<"\\", "s", "*">> \o Tail0(final, FirstChar(final))

\* The work buffer with trailing white space cut, keeping the first character.
RECURSIVE StripTrailing(_, _)
StripTrailing(work, sp) ==
    IF sp > 0 /\ IsSpace(work[sp + 1]) THEN StripTrailing(work, sp - 1)
    ELSE SubSeq(work, 1, sp + 1)

IgnoreTrailing(ctx, final) ==
    LET n == Len(final)
        already == IF n >= 4 THEN SubSeq(final, n - 3, n - 1) = <<"\\", "s", "*">>
                   ELSE ctx.ub
    IN IF already THEN final
       ELSE StripTrailing(final, n - 1) \o <<"\\", "s", "*">>

RECURSIVE MatchPolicyFrom(_, _, _, _, _, _, _)
MatchPolicyFrom(ctx, camel, haystack, insert_match, rp, final, ok) ==
    IF rp > Len(insert_match) THEN ok
    ELSE IF insert_match[rp] = "exact_match" THEN ok \/ camel = haystack
    ELSE LET opt == insert_match[rp]
             final1 == CASE opt = "ignore_embedded" ->
                              IgnoreEmbedded(final, 0, FirstChar(final),
                                             LastChar(final, Len(final) - 1, FirstChar(final)))
                        [] opt = "ignore_leading" -> IgnoreLeading(final)
                        [] opt = "ignore_trailing" -> IgnoreTrailing(ctx, final)
                        [] OTHER -> final
         IN MatchPolicyFrom(ctx, camel, haystack, insert_match, rp + 1, final1,
                            ok \/ FullTextMatch(final1, haystack))

MatchPolicy(ctx, camel, haystack, insert_match) ==
    IF insert_match = <<>> THEN camel = haystack
    ELSE MatchPolicyFrom(ctx, camel, haystack, insert_match, 1,
                         IF insert_match[1] = "exact_match" THEN camel
                         ELSE EscapeRegexChars(camel), FALSE)

IsItemInRegion(ctx, list, item, begin_ptr, end_ptr, insert_match) ==
    /\ begin_ptr # NULL
    /\ \E ip \in begin_ptr .. (IF end_ptr # NULL THEN end_ptr - 1 ELSE Len(list)) :
           MatchPolicy(ctx, item, list[ip], insert_match)

\* Look for a line matching the proposed insert before or after location.
NeighbourItemMatches(ctx, list, location, string, pos, insert_match) ==
    IF pos = "before"
    THEN location # NULL /\ location > 1
         /\ MatchPolicy(ctx, string, list[location - 1], insert_match)
    ELSE location # NULL /\ NextItem(list, location) # NULL
         /\ MatchPolicy(ctx, string, list[location + 1], insert_match)

(***************************************************************************)
(* Line insertion.  The state an operation works on is st, the record of   *)
(* file_start (the lines of the edit context), num_edits and result.       *)
(***************************************************************************)
Head0(list) == IF list = <<>> THEN NULL ELSE 1

\* The state after a line was linked in at index k.
Inserted(st, k, newline) ==
    [file_start |-> InsertAt(st.file_start, k, newline),
     num_edits |-> st.num_edits + 1,
     result |-> PromiseResultUpdate(st.result, CHANGE)]

Warned(st) == [st EXCEPT !.result = MakingChangesResult(TRUE, st.result)]

InsertLineAtLocation(ctx, newline, st, location, prev, a) ==
    LET start == st.file_start
        preserve_block == a.sourcetype = "preserve_block"
        before == a.before_after = "before"
        edit(k) == IF ~MakingChanges(ctx.dry_run)
                   THEN [st |-> Warned(st), retval |-> TRUE, at |-> NULL]
                   ELSE [st |-> Inserted(st, k, newline), retval |-> TRUE, at |-> k]
        kept == [st |-> st, retval |-> FALSE, at |-> NULL]
    IN IF prev = NULL /\ before
       THEN IF start = <<>> THEN edit(PrependIndex(start))
            ELSE IF start[1] # newline THEN edit(PrependIndex(start))
            ELSE kept
       ELSE IF before
       THEN IF ~preserve_block
               /\ NeighbourItemMatches(ctx, start, location, newline, "before", a.insert_match)
            THEN kept
            ELSE edit(InsertAfterIndex(start, prev))
       ELSE IF ~preserve_block
               /\ NeighbourItemMatches(ctx, start, location, newline, "after", a.insert_match)
            THEN kept
            ELSE edit(InsertAfterIndex(start, location))

\* The pointers of InsertCompoundLineAtLocation after the line chunk[k] was
\* handled by InsertLineAtLocation with outcome r, and the remaining lines.
RECURSIVE InsertCompoundLines(_, _, _, _, _, _, _)
RECURSIVE AdvanceCompoundLine(_, _, _, _, _, _, _)
AdvanceCompoundLine(ctx, chunk, k, r, p, a, retval) ==
    LET start == r.st.file_start
        preserve_block == a.sourcetype \in {"preserve_all_lines", "preserve_block",
                                            "file_preserve_block"}
        flip == preserve_block /\ a.before_after = "before"
                /\ p.location = NULL /\ p.prev = NULL
        location == IF flip THEN Head0(start) ELSE Moved(p.location, r.at)
        prev == Moved(p.prev, r.at)
    IN InsertCompoundLines(ctx, chunk, k + 1, r.st,
           [begin_ptr |-> Moved(p.begin_ptr, r.at),
            end_ptr |-> Moved(p.end_ptr, r.at),
            location |-> IF location # NULL THEN NextItem(start, location)
                         ELSE Head0(start),
            prev |-> IF prev # NULL THEN NextItem(start, prev) ELSE Head0(start)],
           a, retval \/ r.retval)

InsertCompoundLines(ctx, chunk, k, st, p, a, retval) ==
    IF k > Len(chunk) THEN [st |-> st, retval |-> retval]
    ELSE IF ~SelectLine(chunk[k], a)
    THEN InsertCompoundLines(ctx, chunk, k + 1, st, p, a, retval)
    ELSE IF a.sourcetype \notin {"preserve_all_lines", "preserve_block",
                                 "file_preserve_block"}
            /\ IsItemInRegion(ctx, st.file_start, chunk[k], p.begin_ptr, p.end_ptr,
                              a.insert_match)
    THEN InsertCompoundLines(ctx, chunk, k + 1, st, p, a, retval)
    ELSE AdvanceCompoundLine(ctx, chunk, k,
                             InsertLineAtLocation(ctx, chunk[k], st, p.location, p.prev, a),
                             p, a, retval)

InsertCompoundLineAtLocation(ctx, chunk, st, begin_ptr, end_ptr, location, prev, a) ==
    IF a.sourcetype # "preserve_all_lines"
       /\ MatchRegion(st.file_start, chunk, location, NULL, FALSE) # 0
    THEN [st |-> st, retval |-> FALSE]
    ELSE InsertCompoundLines(ctx, chunk, 1, st,
             [begin_ptr |-> begin_ptr, end_ptr |-> end_ptr,
              location |-> location, prev |-> prev], a, FALSE)

\* The promiser is a literal chunk: file insertion is not modelled.
InsertMultipleLinesAtLocation(ctx, chunk, st, begin_ptr, end_ptr, location, prev, a) ==
    InsertCompoundLineAtLocation(ctx, chunk, st, begin_ptr, end_ptr, location, prev, a)

\* The scan of the region for insertion after it.
RECURSIVE InsertAfterRegion(_, _, _, _, _, _, _, _)
InsertAfterRegion(ctx, chunk, st, begin_ptr, end_ptr, ip, prev, a) ==
    LET list == st.file_start
    IN IF ip = NULL THEN [st |-> st, retval |-> FALSE]
       ELSE IF a.sourcetype # "preserve_all_lines"
               /\ MatchRegion(list, chunk, ip, end_ptr, FALSE) # 0
       THEN [st |-> st, retval |-> FALSE]
       ELSE IF NextItem(list, ip) = NULL \/ NextItem(list, ip) = end_ptr
       THEN InsertMultipleLinesAtLocation(ctx, chunk, st, begin_ptr, end_ptr, ip, prev, a)
       ELSE InsertAfterRegion(ctx, chunk, st, begin_ptr, end_ptr, NextItem(list, ip), ip, a)

InsertMultipleLinesToRegion(ctx, chunk, st, begin_ptr, end_ptr, a) ==
    IF st.file_start = <<>>
    THEN InsertMultipleLinesAtLocation(ctx, chunk, st, begin_ptr, end_ptr, NULL, NULL, a)
    ELSE IF a.before_after = "before"
    THEN IF begin_ptr # NULL
         THEN InsertMultipleLinesAtLocation(ctx, chunk, st, begin_ptr, end_ptr,
                                            begin_ptr, NULL, a)
         ELSE [st |-> st, retval |-> FALSE]
    ELSE InsertAfterRegion(ctx, chunk, st, begin_ptr, end_ptr, begin_ptr, NULL, a)

\* SelectItemMatching: the first or last line of the region that matches
\* regex, and the line before it in the file.
RECURSIVE LastMatchFrom(_, _, _, _, _)
LastMatchFrom(list, regex, ip, end, last) ==
    IF ip = NULL \/ ip = end THEN last
    ELSE LastMatchFrom(list, regex, NextItem(list, ip), end,
                       IF FullTextMatch(regex, list[ip]) THEN ip ELSE last)

SelectItemMatching(list, regex, begin_ptr, end_ptr, fl) ==
    LET first == FirstMatchFrom(list, regex, begin_ptr)
        match == IF regex = <<>> THEN NULL
                 ELSE IF fl = "first"
                 THEN IF first # NULL /\ (end_ptr = NULL \/ first < end_ptr)
                      THEN first ELSE NULL
                 ELSE LastMatchFrom(list, regex, begin_ptr, end_ptr, NULL)
    IN [ok |-> match # NULL, match |-> match,
        prev |-> IF match = NULL THEN NULL ELSE match - 1]

\* The state an operation starts from: the edit context with outcome NOOP.
Begin(ec) == [file_start |-> ec.file_start, num_edits |-> ec.num_edits, result |-> NOOP]

Counted(r) == IF r.retval THEN [r.st EXCEPT !.num_edits = @ + 1] ELSE r.st

\* The part of VerifyLineInsertions that follows the selection of region.
InsertInRegion(ctx, pp, st, region) ==
    LET a == pp.a
    IN IF ~region.ok THEN [st EXCEPT !.result = INTERRUPTED]
       ELSE IF region.end_ptr = NULL /\ a.select_end # <<>> /\ ~a.select_end_match_eof
       THEN [st EXCEPT !.result = INTERRUPTED]
       ELSE IF ~ctx.lock THEN [st EXCEPT !.result = SKIPPED]
       ELSE IF a.line_matching = <<>>
       THEN Counted(InsertMultipleLinesToRegion(ctx, pp.promiser, st, region.begin_ptr,
                                                region.end_ptr, a))
       ELSE IF ~SelectItemMatching(st.file_start, a.line_matching, region.begin_ptr,
                                   region.end_ptr, a.first_last).ok
       THEN [st EXCEPT !.result = INTERRUPTED]
       ELSE Counted(InsertMultipleLinesAtLocation(ctx, pp.promiser, st, region.begin_ptr,
                region.end_ptr,
                SelectItemMatching(st.file_start, a.line_matching, region.begin_ptr,
                                   region.end_ptr, a.first_last).match,
                SelectItemMatching(st.file_start, a.line_matching, region.begin_ptr,
                                   region.end_ptr, a.first_last).prev, a))

VerifyLineInsertions(ctx, pp, ec) ==
    IF ~SanityCheckInsertions(pp.a) THEN [Begin(ec) EXCEPT !.result = FAIL]
    ELSE InsertInRegion(ctx, pp, Begin(ec),
                        IF ~pp.a.haveregion
                        THEN [ok |-> TRUE, begin_ptr |-> Head0(ec.file_start),
                              end_ptr |-> NULL]
                        ELSE SelectRegion(ec.file_start, pp.a))

(***************************************************************************)
(* Line deletion.                                                          *)
(***************************************************************************)
\* The state after matches lines were unlinked at index ip.
RECURSIVE Deleted(_, _, _)
Deleted(st, ip, matches) ==
    IF matches = 0 THEN st
    ELSE Deleted([file_start |-> RemoveAt(st.file_start, ip),
                  num_edits |-> st.num_edits + 1,
                  result |-> PromiseResultUpdate(st.result, CHANGE)], ip, matches - 1)

RECURSIVE DeleteScan(_, _, _, _, _, _, _)
DeleteScan(ctx, chunk, st, ip, terminator, a, retval) ==
    LET list == st.file_start
        m == MatchRegion(list, chunk, ip, terminator, TRUE)
        matches == IF a.not_matching THEN (IF m = 0 THEN 1 ELSE 0) ELSE m
    IN IF ip = NULL \/ ip > Len(list) \/ ip = terminator
       THEN [st |-> st, retval |-> retval]
       ELSE IF ~SelectLine(list[ip], a)
       THEN DeleteScan(ctx, chunk, st, NextItem(list, ip), terminator, a, retval)
       ELSE IF matches = 0
       THEN DeleteScan(ctx, chunk, st, NextItem(list, ip), terminator, a, retval)
       ELSE IF ~MakingChanges(ctx.dry_run)
       THEN DeleteScan(ctx, chunk, Warned(st), NextItem(list, ip), terminator, a, retval)
       ELSE DeleteScan(ctx, chunk, Deleted(st, ip, matches), ip,
                       IF terminator = NULL THEN NULL ELSE terminator - matches,
                       a, TRUE)

\* DeletePromisedLinesMatching with a scan that always stops at the end
\* delimiter.
DeleteBeforeEndDelimiter(ctx, chunk, st, begin, end, a) ==
    DeleteScan(ctx, chunk, st,
               IF begin = NULL THEN Head0(st.file_start)
               ELSE IF a.include_start THEN begin ELSE NextItem(st.file_start, begin),
               end, a, FALSE)

DeletePromisedLinesMatching(ctx, chunk, st, begin, end, a) ==
    LET list == st.file_start
        initiator == IF begin = NULL THEN Head0(list)
                     ELSE IF a.include_start THEN begin ELSE NextItem(list, begin)
        terminator == IF end = NULL THEN NULL
                      ELSE IF a.include_end THEN NextItem(list, end) ELSE end
    IN DeleteScan(ctx, chunk, st, initiator, terminator, a, FALSE)

\* The part of VerifyLineDeletions that follows the selection of region.
DeleteInRegion(ctx, pp, st, region) ==
    IF ~region.ok THEN [st EXCEPT !.result = INTERRUPTED]
    ELSE IF region.end_ptr = NULL /\ pp.a.select_end # <<>> /\ ~pp.a.select_end_match_eof
    THEN [st EXCEPT !.result = INTERRUPTED]
    ELSE IF ~ctx.lock THEN [st EXCEPT !.result = SKIPPED]
    ELSE Counted(DeletePromisedLinesMatching(ctx, pp.promiser, st, region.begin_ptr,
                                             region.end_ptr, pp.a))

VerifyLineDeletions(ctx, pp, ec) ==
    DeleteInRegion(ctx, pp, Begin(ec),
                   IF ~pp.a.haveregion
                   THEN [ok |-> TRUE, begin_ptr |-> NULL, end_ptr |-> NULL]
                   ELSE SelectRegion(ec.file_start, pp.a))

(***************************************************************************)
(* Pattern replacement.  The promiser is a one-line regular expression.    *)
(***************************************************************************)
CF_MAX_REPLACE == 20

\* NotAnchored without the test of the end of the pattern.
NotAnchoredAtStart(s) == s = <<>> \/ s[1] # "^"

NotAnchored(s) == s = <<>> \/ s[1] # "^" \/ s[Len(s)] # "$"

\* A variant whose test of the cutoff lets one more substitution through.
RECURSIVE ReplaceInLineOnceMore(_, _, _, _, _, _, _)
ReplaceInLineOnceMore(pattern, replace, line_buff, match_len, cutoff, once_only, replaced) ==
    LET m == BlockTextMatch(pattern, line_buff)
    IN IF ~m.found \/ match_len = Len(line_buff) \/ cutoff > CF_MAX_REPLACE + 1
       THEN [line_buff |-> line_buff, replaced |-> replaced, cutoff |-> cutoff]
       ELSE LET new == SubSeq(line_buff, 1, m.s) \o replace \o Tail0(line_buff, m.e)
            IN IF once_only
               THEN [line_buff |-> new, replaced |-> TRUE, cutoff |-> cutoff + 1]
               ELSE ReplaceInLineOnceMore(pattern, replace, new, m.e - m.s, cutoff + 1,
                                          once_only, TRUE)

\* The substitutions within one line: line_buff after the loop, whether
\* anything was replaced, and cutoff, one more than the number of
\* substitutions made.
RECURSIVE ReplaceInLine(_, _, _, _, _, _, _)
ReplaceInLine(pattern, replace, line_buff, match_len, cutoff, once_only, replaced) ==
    LET m == BlockTextMatch(pattern, line_buff)
    IN IF ~m.found
       THEN [line_buff |-> line_buff, replaced |-> replaced, cutoff |-> cutoff]
       ELSE IF match_len = Len(line_buff)
       THEN [line_buff |-> line_buff, replaced |-> replaced, cutoff |-> cutoff]
       ELSE IF cutoff > CF_MAX_REPLACE
       THEN [line_buff |-> line_buff, replaced |-> replaced, cutoff |-> cutoff]
       ELSE LET new == SubSeq(line_buff, 1, m.s) \o replace \o Tail0(line_buff, m.e)
            IN IF once_only
               THEN [line_buff |-> new, replaced |-> TRUE, cutoff |-> cutoff + 1]
               ELSE ReplaceInLine(pattern, replace, new, m.e - m.s, cutoff + 1,
                                  once_only, TRUE)

RECURSIVE ReplaceScan(_, _, _, _, _, _, _)
ReplaceScan(ctx, pattern, st, ip, file_end, a, retval) ==
    LET list == st.file_start
        once_only == a.occurrences = "first"
        r == ReplaceInLine(pattern, a.replace_value, list[ip], 0, 1, once_only, FALSE)
        st1 == [file_start |-> [list EXCEPT ![ip] = r.line_buff],
                num_edits |-> st.num_edits + 1,
                result |-> PromiseResultUpdate(st.result, CHANGE)]
        still == BlockTextMatch(pattern, r.line_buff).found
    IN IF ip = NULL \/ ip = file_end THEN [st |-> st, retval |-> retval]
       ELSE IF NotAnchored(pattern) /\ still
       THEN [st |-> [st EXCEPT !.result = PromiseResultUpdate(@, INTERRUPTED)],
             retval |-> retval]
       ELSE IF ~MakingChanges(ctx.dry_run)
       THEN ReplaceScan(ctx, pattern, Warned(st), NextItem(list, ip), file_end, a, retval)
       ELSE IF ~r.replaced
       THEN ReplaceScan(ctx, pattern, st, NextItem(list, ip), file_end, a, retval)
       ELSE IF once_only THEN [st |-> st1, retval |-> TRUE]
       ELSE ReplaceScan(ctx, pattern,
                        IF still
                        THEN [st1 EXCEPT !.result = PromiseResultUpdate(@, INTERRUPTED)]
                        ELSE st1,
                        NextItem(list, ip), file_end, a, TRUE)

ReplacePatterns(ctx, pattern, st, file_start, file_end, a) ==
    ReplaceScan(ctx, pattern, st, file_start, file_end, a, FALSE)

\* The part of VerifyPatterns that follows the selection of region.
ReplaceInRegion(ctx, pp, st, region) ==
    IF ~region.ok THEN [st EXCEPT !.result = INTERRUPTED]
    ELSE IF ~ctx.lock THEN [st EXCEPT !.result = SKIPPED]
    ELSE Counted(ReplacePatterns(ctx, pp.promiser[1], st, region.begin_ptr,
                                 region.end_ptr, pp.a))

VerifyPatterns(ctx, pp, ec) ==
    IF ~pp.a.have_replace_value THEN [Begin(ec) EXCEPT !.result = FAIL]
    ELSE ReplaceInRegion(ctx, pp, Begin(ec),
                         IF ~pp.a.haveregion
                         THEN [ok |-> TRUE, begin_ptr |-> Head0(ec.file_start),
                               end_ptr |-> NULL]
                         ELSE SelectRegion(ec.file_start, pp.a))

(***************************************************************************)
(* Field (column) editing.  A line is split into a list of fields, and a   *)
(* field into a list of sub-values.                                        *)
(***************************************************************************)
\* RlistFromSplitRegex: the fields of string between matches of regex.
RECURSIVE RlistFromSplitRegex(_, _, _)
RlistFromSplitRegex(string, regex, blanks_ok) ==
    LET m == BlockTextMatch(regex, string)
        node == SubSeq(string, 1, m.s)
    IN IF ~m.found \/ m.e = 0 THEN <<string>>
       ELSE (IF blanks_ok \/ node # <<>> THEN <<node>> ELSE <<>>)
            \o RlistFromSplitRegex(Tail0(string, m.e), regex, blanks_ok)

\* RlistFromSplitString: the sub-values of string between separators sep.
RECURSIVE SplitAtChar(_, _, _)
SplitAtChar(string, sep, acc) ==
    IF string = <<>> THEN <<acc>>
    ELSE IF Head(string) = sep THEN <<acc>> \o SplitAtChar(Tail(string), sep, <<>>)
    ELSE SplitAtChar(Tail(string), sep, Append(acc, Head(string)))

RlistFromSplitString(string, sep) ==
    IF string = <<>> THEN <<>> ELSE SplitAtChar(string, sep, <<>>)

\* Rlist2String: the items of list joined by sep.
RECURSIVE Rlist2String(_, _)
Rlist2String(list, sep) ==
    IF list = <<>> THEN <<>>
    ELSE IF Len(list) = 1 THEN list[1]
    ELSE list[1] \o sep \o Rlist2String(Tail(list), sep)

RlistKeyIn(list, key) == \E i \in DOMAIN list : list[i] = key

RECURSIVE RlistDestroyKey(_, _)
RlistDestroyKey(list, key) ==
    IF list = <<>> THEN <<>>
    ELSE IF Head(list) = key THEN RlistDestroyKey(Tail(list), key)
    ELSE <<Head(list)>> \o RlistDestroyKey(Tail(list), key)

\* Alphabetic order of strings, by character code.
CharCodes == <<" ", ",", ".", ":", "a", "b", "c", "x", "y">>
CharCode(c) == CHOOSE i \in DOMAIN CharCodes : CharCodes[i] = c

RECURSIVE StrLess(_, _)
StrLess(s, t) ==
    IF t = <<>> THEN FALSE
    ELSE IF s = <<>> THEN TRUE
    ELSE IF Head(s) = Head(t) THEN StrLess(Tail(s), Tail(t))
    ELSE CharCode(Head(s)) < CharCode(Head(t))

RECURSIVE AlphaSortRListNames(_)
AlphaSortRListNames(list) ==
    IF list = <<>> THEN <<>>
    ELSE LET rest == AlphaSortRListNames(Tail(list))
             below == SelectSeq(rest, LAMBDA x : StrLess(x, Head(list)))
             above == SelectSeq(rest, LAMBDA x : ~StrLess(x, Head(list)))
         IN below \o <<Head(list)>> \o above

\* strstr(): needle occurs in haystack.
StrStr(haystack, needle) ==
    \E off \in 0 .. Len(haystack) :
        off + Len(needle) <= Len(haystack)
        /\ SubSeq(haystack, off + 1, off + Len(needle)) = needle

\* DoEditColumn: the edited sub-list; retval tells whether it changed.
DoEditColumn(columns, a) ==
    LET column_value == a.column_value
        op == a.column_operation
        same == [columns |-> columns, retval |-> FALSE]
    IN CASE op = "delete" ->
              [columns |-> RlistDestroyKey(columns, column_value),
               retval |-> RlistKeyIn(columns, column_value)]
         [] op = "set" ->
              IF Len(columns) = 1 /\ columns[1] = column_value THEN same
              ELSE IF Len(columns) = 0 /\ column_value = <<>> THEN same
              ELSE [columns |-> <<column_value>>, retval |-> TRUE]
         [] op = "prepend" ->
              IF RlistKeyIn(columns, column_value) THEN same
              ELSE [columns |-> <<column_value>> \o columns, retval |-> TRUE]
         [] op = "alphanum" ->
              IF RlistKeyIn(columns, column_value)
              THEN [columns |-> AlphaSortRListNames(columns), retval |-> FALSE]
              ELSE [columns |-> AlphaSortRListNames(<<column_value>> \o columns),
                    retval |-> TRUE]
         [] OTHER ->
              IF RlistKeyIn(columns, column_value) THEN same
              ELSE [columns |-> Append(columns, column_value), retval |-> TRUE]

ChangedBy(st, n) ==
    [st EXCEPT !.num_edits = @ + n, !.result = PromiseResultUpdate(@, CHANGE)]

\* EditLineByColumn: the fields of one line after the edit.
EditLineByColumn(ctx, columns0, a, st) ==
    LET n == a.select_column
        short == n > Len(columns0)
        columns == IF short /\ a.extend_columns
                   THEN columns0 \o [i \in 1 .. (n - Len(columns0)) |-> <<>>]
                   ELSE columns0
        field == columns[n]
        sub == DoEditColumn(RlistFromSplitString(field, a.value_separator), a)
        dry == [st |-> Warned(st), columns |-> columns, retval |-> FALSE]
    IN IF short /\ ~a.extend_columns
       THEN [st |-> [st EXCEPT !.result = PromiseResultUpdate(@, INTERRUPTED)],
             columns |-> columns0, retval |-> FALSE]
       ELSE IF a.value_separator # ""
       THEN IF StrStr(field, a.column_value) \/ field # a.column_value
            THEN IF ~MakingChanges(ctx.dry_run) THEN dry
                 ELSE IF sub.retval
                 THEN [st |-> ChangedBy(st, 1),
                       columns |-> [columns EXCEPT ![n] =
                                       Rlist2String(sub.columns, <<a.value_separator>>)],
                       retval |-> TRUE]
                 ELSE [st |-> st, columns |-> columns, retval |-> FALSE]
            ELSE [st |-> st, columns |-> columns, retval |-> FALSE]
       ELSE IF ~MakingChanges(ctx.dry_run) THEN dry
       ELSE [st |-> ChangedBy(st, 1),
             columns |-> [columns EXCEPT ![n] = IF a.column_operation = "delete"
                                                THEN <<>> ELSE a.column_value],
             retval |-> TRUE]

RECURSIVE EditColumnsScan(_, _, _, _, _, _, _, _)
EditColumnsScan(ctx, promiser, st, ip, file_end, a, retval, found_match) ==
    LET list == st.file_start
        m == BlockTextMatch(a.column_separator, list[ip])
        separator == SubSeq(list[ip], m.s + 1, m.e)
        r == EditLineByColumn(ctx, RlistFromSplitRegex(list[ip], a.column_separator,
                                                       a.blanks_ok), a, st)
        st1 == IF r.retval
               THEN [r.st EXCEPT !.file_start[ip] = Rlist2String(r.columns, separator)]
               ELSE r.st
    IN IF ip = NULL \/ ip = file_end
       THEN [st |-> IF found_match THEN st
                    ELSE [st EXCEPT !.result = PromiseResultUpdate(@, FAIL)],
             retval |-> retval]
       ELSE IF ~FullTextMatch(promiser, list[ip])
       THEN EditColumnsScan(ctx, promiser, st, NextItem(list, ip), file_end, a,
                            retval, found_match)
       ELSE IF ~m.found
       THEN [st |-> [st EXCEPT !.result = PromiseResultUpdate(@, INTERRUPTED)],
             retval |-> FALSE]
       ELSE EditColumnsScan(ctx, promiser, st1, NextItem(list, ip), file_end, a,
                            r.retval, TRUE)

EditColumns(ctx, promiser, st, file_start, file_end, a) ==
    EditColumnsScan(ctx, promiser, st, file_start, file_end, a, FALSE, FALSE)

\* The part of VerifyColumnEdits that follows the selection of region.
EditInRegion(ctx, pp, st, region) ==
    IF ~region.ok THEN [st EXCEPT !.result = INTERRUPTED]
    ELSE IF ~ctx.lock THEN [st EXCEPT !.result = SKIPPED]
    ELSE Counted(EditColumns(ctx, pp.promiser[1], st, region.begin_ptr,
                             region.end_ptr, pp.a))

VerifyColumnEdits(ctx, pp, ec) ==
    IF pp.a.column_separator = <<>> THEN [Begin(ec) EXCEPT !.result = FAIL]
    ELSE IF pp.a.select_column <= 0 THEN [Begin(ec) EXCEPT !.result = FAIL]
    ELSE IF ~pp.a.have_column_value THEN [Begin(ec) EXCEPT !.result = FAIL]
    ELSE EditInRegion(ctx, pp, Begin(ec),
                      IF ~pp.a.haveregion
                      THEN [ok |-> TRUE, begin_ptr |-> Head0(ec.file_start),
                            end_ptr |-> NULL]
                      ELSE SelectRegion(ec.file_start, pp.a))

(***************************************************************************)
(* Promises.  Attributes that a promise does not set hold their defaults:  *)
(* an empty sequence for a NULL string or list.                            *)
(***************************************************************************)
NoLineSelect ==
    [startwith_from_list |-> <<>>, not_startwith_from_list |-> <<>>,
     match_from_list |-> <<>>, not_match_from_list |-> <<>>,
     contains_from_list |-> <<>>, not_contains_from_list |-> <<>>]

DefaultAttributes ==
    [haveregion |-> FALSE, select_start |-> <<>>, select_end |-> <<>>,
     include_start |-> FALSE, include_end |-> FALSE, select_end_match_eof |-> FALSE,
     sourcetype |-> "literal", insert_match |-> <<>>, line_select |-> NoLineSelect,
     before_after |-> "after", line_matching |-> <<>>, first_last |-> "last",
     not_matching |-> FALSE,
     have_replace_value |-> FALSE, replace_value |-> <<>>, occurrences |-> "all",
     column_separator |-> <<>>, select_column |-> 0, have_column_value |-> FALSE,
     column_value |-> <<>>, column_operation |-> "append", value_separator |-> "",
     extend_columns |-> FALSE, blanks_ok |-> FALSE]

\* The region selections of the promises explored.
NoRegion ==
    [haveregion |-> FALSE, select_start |-> <<>>, select_end |-> <<>>,
     include_start |-> FALSE, include_end |-> FALSE, eof |-> FALSE]

Regions ==
    {NoRegion}
    \cup { [haveregion |-> TRUE, select_start |-> <<"s">>, select_end |-> <<>>,
            include_start |-> is, include_end |-> FALSE, eof |-> FALSE] :
           is \in BOOLEAN }
    \cup { [haveregion |-> TRUE, select_start |-> <<"s">>, select_end |-> <<"e">>,
            include_start |-> is, include_end |-> ie, eof |-> FALSE] :
           is \in BOOLEAN, ie \in BOOLEAN }
    \cup { [haveregion |-> TRUE, select_start |-> <<"s">>, select_end |-> <<"e">>,
            include_start |-> FALSE, include_end |-> FALSE, eof |-> TRUE] }

\* Regions whose delimiters are not part of the region.
PlainRegions ==
    {r \in Regions : ~r.include_start /\ ~r.include_end /\ ~r.eof}

\* No region, and the region between a start and an end delimiter.
DelimitedRegions == {r \in PlainRegions : r.haveregion = (r.select_end # <<>>)}

WithRegion(a, r) ==
    [a EXCEPT !.haveregion = r.haveregion, !.select_start = r.select_start,
              !.select_end = r.select_end, !.include_start = r.include_start,
              !.include_end = r.include_end, !.select_end_match_eof = r.eof]

\* Lines of text used in the files and promisers explored.
La == <<"a">>
Lb == <<"b">>
Ls == <<"s">>
Le == <<"e">>
Lsa == <<" ", "a">>
Lab == <<"a", ":", "b">>
Labc == <<"a", ":", "b", ",", "c">>

\* All line lists of at most n lines taken from lines.
ListsOf(lines, n) == UNION { [1 .. k -> lines] : k \in 0 .. n }

MaxLines == 2

InsertionPromises ==
    { [type |-> "insert_lines", promiser |-> chunk,
       a |-> [WithRegion(DefaultAttributes, r) EXCEPT
                 !.sourcetype = t, !.before_after = ba, !.line_matching = lm]] :
      chunk \in {<<La>>, <<La, Lb>>},
      r \in PlainRegions,
      t \in {"literal", "preserve_block", "preserve_all_lines"},
      ba \in {"before", "after"},
      lm \in {<<>>, Lb} }
    \cup
    { [type |-> "insert_lines", promiser |-> chunk,
       a |-> [DefaultAttributes EXCEPT !.before_after = ba, !.insert_match = im]] :
      chunk \in {<<La>>, <<Lsa>>},
      ba \in {"before", "after"},
      im \in {<<"ignore_leading">>, <<"ignore_trailing">>, <<"ignore_embedded">>} }

DeletionPromises ==
    { [type |-> "delete_lines", promiser |-> chunk,
       a |-> WithRegion(DefaultAttributes, r)] :
      chunk \in {<<La>>, <<Ls>>, <<Le>>}, r \in Regions }
    \cup
    { [type |-> "delete_lines", promiser |-> chunk,
       a |-> [DefaultAttributes EXCEPT !.not_matching = nm, !.line_select = ls]] :
      chunk \in {<<La>>, <<La, Lb>>},
      nm \in BOOLEAN,
      ls \in {NoLineSelect, [NoLineSelect EXCEPT !.not_startwith_from_list = <<La>>]} }

ColumnPromises ==
    { [type |-> "field_edits", promiser |-> <<<<"a", ":", ".", "*">>>>,
       a |-> [WithRegion(DefaultAttributes, r) EXCEPT
                 !.column_separator = <<":">>, !.select_column = ne[1],
                 !.have_column_value = TRUE, !.column_value = Lb,
                 !.column_operation = op, !.value_separator = vs,
                 !.extend_columns = ne[2], !.blanks_ok = TRUE]] :
      r \in DelimitedRegions,
      ne \in {<<2, FALSE>>, <<3, FALSE>>, <<3, TRUE>>},
      op \in {"set", "delete", "prepend", "alphanum", "append"},
      vs \in {"", ","} }

PatternPromises ==
    { [type |-> "replace_patterns", promiser |-> <<pat>>,
       a |-> [WithRegion(DefaultAttributes, r) EXCEPT
                 !.have_replace_value = TRUE, !.replace_value = v,
                 !.occurrences = occ]] :
      pat \in {<<"a">>, <<"^", "a">>, <<"^", "a", "$">>, <<"^", "a", ".", "*", "$">>},
      r \in DelimitedRegions,
      v \in {<<"a">>, <<"b">>, <<"a", "b">>},
      occ \in {"all", "first"} }

\* The files a promise of each type is applied to.
FilesFor(type) ==
    CASE type = "insert_lines" -> ListsOf({La, Lb, Ls}, MaxLines)
      [] type = "delete_lines" ->
             ListsOf({La, Ls, Le}, MaxLines + 1) \cup ListsOf({La, Lb}, MaxLines)
      [] type = "field_edits" -> ListsOf({Lab, Labc, Ls}, MaxLines)
      [] type = "replace_patterns" -> ListsOf({La, Lb, Ls}, MaxLines)

(***************************************************************************)
(* The agent keeps one edit-line promise pp on the line list of an edit    *)
(* context, once per pass or agent run.  history records each application: *)
(* the line list before and after it, its outcome and whether the promise  *)
(* lock was acquired.  sched is the position of one evaluation of an       *)
(* edit_line bundle, changes the change tracker with the files it watches, *)
(* and pkg the package module with its provider.                           *)
(***************************************************************************)
VARIABLES pp, dry_run, edcontext, history, sched, changes, pkg, policy

vars == <<pp, dry_run, edcontext, history, sched, changes, pkg, policy>>

MaxRuns == 2

\* The parts of the agent that a specification does not exercise.
NoSchedule == [pc |-> "none"]
NoChanges == [result |-> NOOP]
NoPackages == [pc |-> "none"]
NoPolicy == [pc |-> "none"]

Init ==
    /\ pp \in InsertionPromises \cup DeletionPromises \cup ColumnPromises
              \cup PatternPromises
    /\ dry_run \in BOOLEAN
    /\ \E f \in FilesFor(pp.type) : edcontext = [file_start |-> f, num_edits |-> 0]
    /\ history = <<>>
    /\ sched = NoSchedule
    /\ changes = NoChanges
    /\ pkg = NoPackages
    /\ policy = NoPolicy

\* The locks an operation acquired with AcquireLock() and gave back with
\* YieldCurrentLock() before it returned, by return path.  A lock that is
\* refused is not acquired.
NoLocks == [acquired |-> 0, yielded |-> 0]

\* The region an operation works in when the promise selects none.
WholeFile(ec, begin_ptr) == [ok |-> TRUE, begin_ptr |-> begin_ptr, end_ptr |-> NULL]

\* Whether the end of the region was promised and not found.
EndNotFound(region, a) ==
    region.end_ptr = NULL /\ a.select_end # <<>> /\ ~a.select_end_match_eof

\* A variant that returns without yielding when the anchor is not found.
InsertionLocksKeptWithoutAnchor(ctx, promise, ec) ==
    LET a == promise.a
        region == IF ~a.haveregion THEN WholeFile(ec, Head0(ec.file_start))
                  ELSE SelectRegion(ec.file_start, a)
    IN IF ~SanityCheckInsertions(a) THEN NoLocks
       ELSE IF ~region.ok THEN NoLocks
       ELSE IF EndNotFound(region, a) THEN NoLocks
       ELSE IF ~ctx.lock THEN NoLocks
       ELSE IF /\ a.line_matching # <<>>
               /\ ~SelectItemMatching(ec.file_start, a.line_matching, region.begin_ptr,
                                      region.end_ptr, a.first_last).ok
       THEN [acquired |-> 1, yielded |-> 0]
       ELSE [acquired |-> 1, yielded |-> 1]

\* VerifyLineInsertions(): the returns before AcquireLock(), the return
\* when it is refused, the return when the anchor is not found, and the
\* return at the end.
InsertionLocks(ctx, promise, ec) ==
    LET a == promise.a
        region == IF ~a.haveregion THEN WholeFile(ec, Head0(ec.file_start))
                  ELSE SelectRegion(ec.file_start, a)
    IN IF ~SanityCheckInsertions(a) THEN NoLocks
       ELSE IF ~region.ok THEN NoLocks
       ELSE IF EndNotFound(region, a) THEN NoLocks
       ELSE IF ~ctx.lock THEN NoLocks
       ELSE IF /\ a.line_matching # <<>>
               /\ ~SelectItemMatching(ec.file_start, a.line_matching, region.begin_ptr,
                                      region.end_ptr, a.first_last).ok
       THEN [acquired |-> 1, yielded |-> 1]
       ELSE [acquired |-> 1, yielded |-> 1]

\* VerifyLineDeletions().
DeletionLocks(ctx, promise, ec) ==
    LET a == promise.a
        region == IF ~a.haveregion THEN WholeFile(ec, NULL)
                  ELSE SelectRegion(ec.file_start, a)
    IN IF ~region.ok THEN NoLocks
       ELSE IF EndNotFound(region, a) THEN NoLocks
       ELSE IF ~ctx.lock THEN NoLocks
       ELSE [acquired |-> 1, yielded |-> 1]

\* VerifyColumnEdits().
ColumnLocks(ctx, promise, ec) ==
    LET a == promise.a
        region == IF ~a.haveregion THEN WholeFile(ec, Head0(ec.file_start))
                  ELSE SelectRegion(ec.file_start, a)
    IN IF a.column_separator = <<>> THEN NoLocks
       ELSE IF a.select_column <= 0 THEN NoLocks
       ELSE IF ~a.have_column_value THEN NoLocks
       ELSE IF ~region.ok THEN NoLocks
       ELSE IF ~ctx.lock THEN NoLocks
       ELSE [acquired |-> 1, yielded |-> 1]

\* VerifyPatterns().
PatternLocks(ctx, promise, ec) ==
    LET a == promise.a
        region == IF ~a.haveregion THEN WholeFile(ec, Head0(ec.file_start))
                  ELSE SelectRegion(ec.file_start, a)
    IN IF ~a.have_replace_value THEN NoLocks
       ELSE IF ~region.ok THEN NoLocks
       ELSE IF ~ctx.lock THEN NoLocks
       ELSE [acquired |-> 1, yielded |-> 1]

\* The edit context and the history after an application that left st.
Applied(st, lock, locks) ==
    /\ edcontext' = [file_start |-> st.file_start, num_edits |-> st.num_edits]
    /\ history' = Append(history,
                         [before |-> edcontext.file_start, after |-> st.file_start,
                          edits |-> st.num_edits - edcontext.num_edits,
                          result |-> st.result, lock |-> lock, locks |-> locks])

\* The evaluation context of one application: the agent's mode, whether the
\* promise lock is acquired, and what a read before a short string yields.
Contexts ==
    [dry_run : {dry_run}, lock : BOOLEAN, ub : BOOLEAN]

KeepLineInsertions ==
    /\ pp.type = "insert_lines"
    /\ Len(history) < MaxRuns
    /\ \E ctx \in Contexts : Applied(VerifyLineInsertions(ctx, pp, edcontext), ctx.lock,
                                InsertionLocks(ctx, pp, edcontext))
    /\ UNCHANGED <<pp, dry_run, sched, changes, pkg, policy>>

KeepLineDeletions ==
    /\ pp.type = "delete_lines"
    /\ Len(history) < MaxRuns
    /\ \E ctx \in Contexts : Applied(VerifyLineDeletions(ctx, pp, edcontext), ctx.lock,
                                DeletionLocks(ctx, pp, edcontext))
    /\ UNCHANGED <<pp, dry_run, sched, changes, pkg, policy>>

KeepColumnEdits ==
    /\ pp.type = "field_edits"
    /\ Len(history) < MaxRuns
    /\ \E ctx \in Contexts : Applied(VerifyColumnEdits(ctx, pp, edcontext), ctx.lock,
                                ColumnLocks(ctx, pp, edcontext))
    /\ UNCHANGED <<pp, dry_run, sched, changes, pkg, policy>>

KeepPatterns ==
    /\ pp.type = "replace_patterns"
    /\ Len(history) < MaxRuns
    /\ \E ctx \in Contexts : Applied(VerifyPatterns(ctx, pp, edcontext), ctx.lock,
                                PatternLocks(ctx, pp, edcontext))
    /\ UNCHANGED <<pp, dry_run, sched, changes, pkg, policy>>

\* KeepEditLinePromise dispatches on the promise type.
Next ==
    \/ KeepLineInsertions
    \/ KeepLineDeletions
    \/ KeepColumnEdits
    \/ KeepPatterns

Spec == Init /\ [][Next]_vars

(***************************************************************************)
(* One evaluation of an edit_line bundle by ScheduleEditLineOperations.    *)
(* sched holds the bundle bp, the position of the evaluation (pass, and    *)
(* next, the index of the next promise in the order of the sections), who  *)
(* holds the lock "masterfilelock-<filename>", and for every pass begun    *)
(* the number of promises evaluated and of edits made in it.               *)
(***************************************************************************)
CF_DONEPASSES == 4

\* A sequence that evaluates the insertions before the deletions.
InsertionsFirst ==
    <<"vars", "classes", "insert_lines", "field_edits", "delete_lines",
      "replace_patterns", "reports">>

EDITLINETYPESEQUENCE ==
    <<"vars", "classes", "delete_lines", "field_edits", "insert_lines",
      "replace_patterns", "reports">>

\* A lock is granted when no other process holds it and the time since the
\* promise last ran allows it.
AcquireLock(holder, elapsed) ==
    IF holder = "free" /\ elapsed THEN [lock |-> 1] ELSE [lock |-> NULL]

YieldCurrentLock(holder) == IF holder = "agent" THEN "free" ELSE holder

LockNeverRefused(thislock) == FALSE

LockRefused(thislock) == thislock.lock = NULL

MorePassesInclusive(pass) == pass <= CF_DONEPASSES

MorePasses(pass) == pass < CF_DONEPASSES

\* The promises of the section of a type; none when the bundle has no such
\* section.
BundleGetSection(bp, type) == IF type \in DOMAIN bp THEN bp[type] ELSE <<>>

RECURSIVE SectionsFrom(_, _)
\* The promises of a bundle in the order a pass evaluates them.
SectionsFrom(bp, type) ==
    IF type > Len(EDITLINETYPESEQUENCE) THEN <<>>
    ELSE BundleGetSection(bp, EDITLINETYPESEQUENCE[type]) \o SectionsFrom(bp, type + 1)

PassOrder(bp) == SectionsFrom(bp, 1)

KeepEditLinePromise(ctx, p, ec) ==
    CASE p.type = "delete_lines" -> VerifyLineDeletions(ctx, p, ec)
      [] p.type = "field_edits" -> VerifyColumnEdits(ctx, p, ec)
      [] p.type = "insert_lines" -> VerifyLineInsertions(ctx, p, ec)
      [] p.type = "replace_patterns" -> VerifyPatterns(ctx, p, ec)
      [] OTHER -> [file_start |-> ec.file_start, num_edits |-> ec.num_edits,
                   result |-> NOOP]

\* The promises of the bundles explored.
DeleteA == [type |-> "delete_lines", promiser |-> <<La>>, a |-> DefaultAttributes]
InsertA == [type |-> "insert_lines", promiser |-> <<La>>, a |-> DefaultAttributes]
InsertB == [type |-> "insert_lines", promiser |-> <<Lb>>, a |-> DefaultAttributes]
ReplaceAByB ==
    [type |-> "replace_patterns", promiser |-> <<La>>,
     a |-> [DefaultAttributes EXCEPT !.have_replace_value = TRUE,
                                     !.replace_value = Lb]]
ReportA == [type |-> "reports", promiser |-> <<La>>, a |-> DefaultAttributes]

Bundles ==
    { [delete_lines |-> d, insert_lines |-> i, replace_patterns |-> r, reports |-> o] :
      d \in {<<>>, <<DeleteA>>},
      i \in {<<>>, <<InsertA>>, <<InsertA, InsertB>>},
      r \in {<<>>, <<ReplaceAByB>>},
      o \in {<<>>, <<ReportA>>} }

NoPromise == [type |-> "none"]

\* The locks the operation of a promise of an edit_line bundle acquired and
\* yielded.
EditLineLocks(ctx, p, ec) ==
    CASE p.type = "delete_lines" -> DeletionLocks(ctx, p, ec)
      [] p.type = "field_edits" -> ColumnLocks(ctx, p, ec)
      [] p.type = "insert_lines" -> InsertionLocks(ctx, p, ec)
      [] p.type = "replace_patterns" -> PatternLocks(ctx, p, ec)
      [] OTHER -> NoLocks

InitSchedule ==
    /\ pp = NoPromise
    /\ dry_run \in BOOLEAN
    /\ \E f \in ListsOf({La, Lb}, 1) : edcontext = [file_start |-> f, num_edits |-> 0]
    /\ history = <<>>
    /\ \E bp \in Bundles, holder \in {"free", "other"} :
          sched = [pc |-> "start", bp |-> bp, holder |-> holder, acquired |-> FALSE,
                   pass |-> 0, next |-> 0, passes |-> <<>>, ret |-> FALSE,
                   first |-> edcontext.file_start, aborted |-> FALSE,
                   locks |-> NoLocks, promise_locks |-> NoLocks]
    /\ changes = NoChanges
    /\ pkg = NoPackages
    /\ policy = NoPolicy

\* The log of the passes once the pass has begun.
Begun(passes, pass) ==
    IF Len(passes) < pass THEN Append(passes, [evals |-> 0, edits |-> 0, held |-> TRUE])
    ELSE passes

\* ScheduleEditLineOperations up to its loop: the lock on the file is asked
\* for, and without it the evaluation returns false.
ScheduleStart ==
    /\ sched.pc = "start"
    /\ \E elapsed \in BOOLEAN :
          LET thislock == AcquireLock(sched.holder, elapsed)
          IN IF LockRefused(thislock)
             THEN sched' = [sched EXCEPT !.pc = "done", !.ret = FALSE]
             ELSE sched' = [sched EXCEPT
                               !.pc = "run", !.pass = 1, !.next = 1,
                               !.acquired = thislock.lock # NULL,
                               !.locks.acquired = IF thislock.lock # NULL THEN @ + 1 ELSE @,
                               !.holder = IF thislock.lock # NULL THEN "agent" ELSE @]
    /\ UNCHANGED <<pp, dry_run, edcontext, history, changes, pkg, policy>>

\* The abort flag of the evaluation context: evaluating a promise that
\* defines an abort class sets it, and BundleAbort() reads it.
BundleAbort(flag) == flag

\* A variant that goes on with the next promise whatever BundleAbort() says.
KeptIgnoringAbort(st, abort, locks) ==
    /\ edcontext' = [file_start |-> st.file_start, num_edits |-> st.num_edits]
    /\ sched' = [sched EXCEPT
                    !.passes = [Begun(@, sched.pass) EXCEPT
                                   ![sched.pass].evals = @ + 1,
                                   ![sched.pass].edits =
                                       @ + (st.num_edits - edcontext.num_edits),
                                   ![sched.pass].held = @ /\ sched.holder = "agent"],
                    !.next = @ + 1,
                    !.aborted = abort]

\* The state after the promise at sched.next was kept and left st; the
\* bundle is left when the promise set the abort flag.
Kept(st, abort, locks) ==
    /\ edcontext' = [file_start |-> st.file_start, num_edits |-> st.num_edits]
    /\ sched' = [sched EXCEPT
                    !.passes = [Begun(@, sched.pass) EXCEPT
                                   ![sched.pass].evals = @ + 1,
                                   ![sched.pass].edits =
                                       @ + (st.num_edits - edcontext.num_edits),
                                   ![sched.pass].held = @ /\ sched.holder = "agent"],
                    !.next = @ + 1,
                    !.aborted = abort,
                    !.pc = IF BundleAbort(abort) THEN "done" ELSE @,
                    !.ret = FALSE,
                    !.promise_locks = locks,
                    !.locks.yielded = IF BundleAbort(abort) THEN @ + 1 ELSE @,
                    !.holder = IF BundleAbort(abort) THEN YieldCurrentLock(@) ELSE @]

\* One turn of the loop over the promises of a section.
KeepNextPromise ==
    /\ sched.pc = "run"
    /\ MorePasses(sched.pass)
    /\ sched.next <= Len(PassOrder(sched.bp))
    /\ pp' = PassOrder(sched.bp)[sched.next]
    /\ \E ctx \in Contexts, abort \in BOOLEAN :
          Kept(KeepEditLinePromise(ctx, pp', edcontext), abort,
               EditLineLocks(ctx, pp', edcontext))
    /\ UNCHANGED <<dry_run, history, changes, pkg, policy>>

\* The loop over the sections is done: the next pass.
EndPass ==
    /\ sched.pc = "run"
    /\ MorePasses(sched.pass)
    /\ sched.next > Len(PassOrder(sched.bp))
    /\ sched' = [sched EXCEPT !.passes = Begun(@, sched.pass),
                              !.pass = @ + 1, !.next = 1]
    /\ UNCHANGED <<pp, dry_run, edcontext, history, changes, pkg, policy>>

\* The loop over the passes is done: the lock is yielded.
ScheduleFinish ==
    /\ sched.pc = "run"
    /\ ~MorePasses(sched.pass)
    /\ sched' = [sched EXCEPT !.pc = "done", !.ret = TRUE,
                              !.locks.yielded = @ + 1,
                              !.holder = YieldCurrentLock(@)]
    /\ UNCHANGED <<pp, dry_run, edcontext, history, changes, pkg, policy>>

NextSchedule ==
    \/ ScheduleStart
    \/ KeepNextPromise
    \/ EndPass
    \/ ScheduleFinish

SpecSchedule == InitSchedule /\ [][NextSchedule]_vars

(***************************************************************************)
(* The change tracker and the saving of an edited file.  changes holds the *)
(* changes database db (per file the recorded hash and stat, 0 when there  *)
(* is no record, and the recorded directory listing), the kinds of change  *)
(* written to the change log, the watched files on disk (per file its      *)
(* version, 0 when it does not exist), the edited file on disk, and snap:  *)
(* the database, log and edited file as the agent last was free to leave   *)
(* them.                                                                   *)
(***************************************************************************)
MakingInternalChanges(dry) == ~dry
MakingInternalChangesResult(dry, result) ==
    IF dry THEN PromiseResultUpdate(result, WARN) ELSE result

\* The names of the files of the watched directory, and the versions of
\* each: a file is created as version 1 and may be changed to version 2.
WatchedFiles == {La, Lb}
Versions(f) == IF f = La THEN {1, 2} ELSE {1}

Range(seq) == {seq[i] : i \in DOMAIN seq}

SeqSoftSort(files) == AlphaSortRListNames(files)

\* Every order in which the directory may list the files.
Listings(files) ==
    {l \in ListsOf(files, Cardinality(files)) :
        Len(l) = Cardinality(files) /\ Range(l) = files}

RemoveAllFileTraces(db, paths) ==
    [db EXCEPT !.hash = [f \in WatchedFiles |-> IF f \in paths THEN 0 ELSE @[f]],
               !.stat = [f \in WatchedFiles |-> IF f \in paths THEN 0 ELSE @[f]]]

\* The byte that ends a string.
NulChar == "NUL"

RECURSIVE RawEntries(_)
\* The value stored for a listing: the names one after the other, each with
\* its terminating byte.
RawEntries(files) ==
    IF files = <<>> THEN <<>>
    ELSE Head(files) \o <<NulChar>> \o RawEntries(Tail(files))

RECURSIVE EntriesFrom(_, _, _)
\* The loop of GetDirectoryListFromDatabase() from pos on; entry holds the
\* bytes of the name read so far.  A value without a last terminating byte
\* ends the loop with an error.
EntriesFrom(raw_entries, pos, entry) ==
    IF pos > Len(raw_entries) THEN <<>>
    ELSE IF raw_entries[pos] = NulChar
    THEN <<entry>> \o EntriesFrom(raw_entries, pos + 1, <<>>)
    ELSE EntriesFrom(raw_entries, pos + 1, Append(entry, raw_entries[pos]))

\* GetDirectoryListFromDatabase(): no names when the database has no value
\* for the directory.
GetDirectoryListFromDatabase(db) == EntriesFrom(db.dir, 1, <<>>)

\* memcmp(old_entries, raw_entries, size) == 0, where old_entries is a
\* buffer of at least size bytes into which ReadDB() copied the stored
\* value: the bytes of the buffer after the stored value are uninitialized,
\* and equal the bytes compared with them or not (ub).
SameEntries(old_entries, raw_entries, ub) ==
    IF Len(old_entries) >= Len(raw_entries)
    THEN SubSeq(old_entries, 1, Len(raw_entries)) = raw_entries
    ELSE SubSeq(raw_entries, 1, Len(old_entries)) = old_entries /\ ub

\* FileChangesSetDirectoryList: the database and whether the listing changed.
FileChangesSetDirectoryList(db, files, ub) ==
    IF Len(files) = 0 THEN [db |-> [db EXCEPT !.dir = <<>>], change |-> db.dir # <<>>]
    ELSE IF db.dir # <<>> /\ SameEntries(db.dir, RawEntries(files), ub)
    THEN [db |-> db, change |-> FALSE]
    ELSE [db |-> [db EXCEPT !.dir = RawEntries(files)], change |-> TRUE]

\* A variant that overwrites a differing record whatever update says.
HashStoredWithoutUpdate(dry, c, filename, digest, update, open) ==
    IF open /\ MakingInternalChanges(dry) /\ c.db.hash[filename] # digest
    THEN [c EXCEPT !.result = PromiseResultUpdate(@, CHANGE),
                   !.db.hash[filename] = digest]
    ELSE c

FileChangesCheckAndUpdateHash(dry, c, filename, digest, update, open) ==
    LET found == c.db.hash[filename] # 0
        different == ~found \/ c.db.hash[filename] # digest
    IN IF ~open THEN [c EXCEPT !.result = PromiseResultUpdate(@, FAIL)]
       ELSE IF ~different THEN [c EXCEPT !.result = PromiseResultUpdate(@, NOOP)]
       ELSE IF ~MakingInternalChanges(dry)
       THEN [c EXCEPT !.result = MakingInternalChangesResult(dry, @)]
       ELSE IF ~found \/ update
       THEN [c EXCEPT !.result = PromiseResultUpdate(@, CHANGE),
                      !.db.hash[filename] = digest]
       ELSE [c EXCEPT !.result = PromiseResultUpdate(@, FAIL)]

\* A variant that overwrites a differing record whatever update says.
StatsStoredWithoutUpdate(dry, c, file, sb, update, open) ==
    IF open /\ MakingInternalChanges(dry) /\ c.db.stat[file] # sb
    THEN [c EXCEPT !.result = PromiseResultUpdate(@, CHANGE), !.db.stat[file] = sb]
    ELSE c

FileChangesCheckAndUpdateStats(dry, c, file, sb, update, open) ==
    LET cmpsb == c.db.stat[file]
        logged == IF MakingInternalChanges(dry)
                  THEN [c EXCEPT !.log = @ \cup {"S"},
                                 !.result = PromiseResultUpdate(@, CHANGE)]
                  ELSE [c EXCEPT !.result = MakingInternalChangesResult(dry, @)]
    IN IF ~open THEN [c EXCEPT !.result = PromiseResultUpdate(@, FAIL)]
       ELSE IF cmpsb = 0
       THEN IF MakingInternalChanges(dry)
            THEN [c EXCEPT !.db.stat[file] = sb,
                           !.result = PromiseResultUpdate(@, CHANGE)]
            ELSE [c EXCEPT !.result = MakingInternalChangesResult(dry, @)]
       ELSE IF cmpsb = sb THEN c
       ELSE IF update /\ MakingInternalChanges(dry)
       THEN [logged EXCEPT !.db.stat[file] = sb,
                           !.result = PromiseResultUpdate(@, CHANGE)]
       ELSE IF update
       THEN [logged EXCEPT !.result = MakingInternalChangesResult(dry, @)]
       ELSE logged

\* The tracker after the merged traversal of the listing on disk and the
\* listing of the database, which removed the records of the files gone.
DirectoryRecorded(dry, c, disk_file_set, update, ub) ==
    LET set == FileChangesSetDirectoryList(c.db, disk_file_set, ub)
    IN IF ~MakingInternalChanges(dry)
       THEN [c EXCEPT !.result = MakingInternalChangesResult(dry, @)]
       ELSE IF ~update THEN [c EXCEPT !.result = PromiseResultUpdate(@, FAIL)]
       ELSE [c EXCEPT !.db = set.db,
                      !.result = IF set.change THEN PromiseResultUpdate(@, CHANGE)
                                 ELSE @]

FileChangesCheckAndUpdateDirectory(dry, c, file_set, db_file_set, update, open, ub) ==
    LET disk_file_set == SeqSoftSort(file_set)
        new == Range(disk_file_set) \ Range(db_file_set)
        gone == Range(db_file_set) \ Range(disk_file_set)
        seen == IF new = {} THEN c.result ELSE PromiseResultUpdate(c.result, CHANGE)
        removed == IF gone = {} THEN seen
                   ELSE IF MakingInternalChanges(dry)
                   THEN PromiseResultUpdate(seen, CHANGE)
                   ELSE MakingInternalChangesResult(dry, seen)
    IN IF ~open THEN [c EXCEPT !.result = PromiseResultUpdate(@, FAIL)]
       ELSE DirectoryRecorded(
                dry,
                [c EXCEPT !.result = removed,
                          !.log = IF gone # {} /\ MakingInternalChanges(dry)
                                  THEN @ \cup {"R"} ELSE @,
                          !.db = RemoveAllFileTraces(@, gone)],
                disk_file_set, update, ub)

CompareToFile(file_start, file) == file_start = file

FinishEditContext(dry, c, ec, save_file, saved) ==
    IF ~save_file \/ c.result \notin {NOOP, CHANGE} THEN c
    ELSE IF /\ ec.num_edits > 0
            /\ ~CompareToFile(ec.file_start, c.edfile)
            /\ ~MakingChanges(dry)
    THEN [c EXCEPT !.result = MakingChangesResult(dry, @)]
    ELSE IF ec.num_edits > 0
    THEN IF CompareToFile(ec.file_start, c.edfile) THEN c
         ELSE IF saved
         THEN [c EXCEPT !.edfile = ec.file_start,
                        !.result = PromiseResultUpdate(@, CHANGE)]
         ELSE [c EXCEPT !.result = PromiseResultUpdate(@, FAIL)]
    ELSE c

\* A variant that returns at once when the file is not to be updated.
ContextKeptOnFailure(dry, c, ec, save_file, saved) ==
    IF ~save_file \/ c.result \notin {NOOP, CHANGE} THEN FALSE
    ELSE TRUE

\* Whether FinishEditContext() released the edit context before returning:
\* every path ends at the label end, where a context that is not NULL is
\* freed.
ContextReleased(dry, c, ec, save_file, saved) ==
    IF ~save_file \/ c.result \notin {NOOP, CHANGE} THEN TRUE
    ELSE IF /\ ec.num_edits > 0
            /\ ~CompareToFile(ec.file_start, c.edfile)
            /\ ~MakingChanges(dry)
    THEN TRUE
    ELSE TRUE

\* The outcome accumulated over the promises of an edit, each added to the
\* outcome so far with PromiseResultUpdate().
RECURSIVE AccumulatedOutcome(_, _)
AccumulatedOutcome(result, outcomes) ==
    IF outcomes = <<>> THEN result
    ELSE AccumulatedOutcome(PromiseResultUpdate(result, Head(outcomes)), Tail(outcomes))

MaxOutcomes == 2

\* The outcomes of the edit promises of a run.
EditOutcomes == UNION { [1..n -> PromiseResults] : n \in 0..MaxOutcomes }

NoFinish ==
    [called |-> FALSE, outcomes |-> <<>>, before |-> <<>>, in_memory |-> <<>>,
     save_file |-> FALSE, released |-> FALSE]

InitChanges ==
    /\ pp = NoPromise
    /\ dry_run = FALSE
    /\ edcontext = [file_start |-> <<>>, num_edits |-> 0]
    /\ history = <<>>
    /\ sched = NoSchedule
    /\ \E disk \in [WatchedFiles -> {0, 1}], edfile \in ListsOf({La}, 1) :
          LET db == [hash |-> [f \in WatchedFiles |-> 0],
                     stat |-> [f \in WatchedFiles |-> 0], dir |-> <<>>]
          IN changes = [db |-> db, log |-> {}, disk |-> disk,
                        edfile |-> edfile, result |-> NOOP, finish |-> NoFinish,
                        snap |-> [db |-> db, log |-> {}, edfile |-> edfile]]
    /\ pkg = NoPackages
    /\ policy = NoPolicy

\* The tracker after an operation of the agent that left c.
Tracked(c) ==
    changes' = [c EXCEPT !.snap = IF dry_run THEN @
                                  ELSE [db |-> c.db, log |-> c.log, edfile |-> c.edfile]]

\* A new run of the agent, in dry-run mode or not.
StartAgentRun ==
    /\ \E dry \in BOOLEAN : dry_run' = dry
    /\ changes' = [changes EXCEPT
                      !.result = NOOP,
                      !.snap = [db |-> changes.db, log |-> changes.log,
                                edfile |-> changes.edfile]]
    /\ UNCHANGED <<pp, edcontext, history, sched, pkg, policy>>

\* Something other than the agent creates, changes or removes a watched file.
FileChangedOnDisk ==
    /\ \E f \in WatchedFiles : \E v \in {0} \cup Versions(f) :
          /\ v # changes.disk[f]
          /\ changes' = [changes EXCEPT !.disk[f] = v]
    /\ UNCHANGED <<pp, dry_run, edcontext, history, sched, pkg, policy>>

CheckHash ==
    /\ \E f \in WatchedFiles, update \in BOOLEAN, open \in BOOLEAN :
          /\ changes.disk[f] # 0
          /\ Tracked(FileChangesCheckAndUpdateHash(
                         dry_run, [changes EXCEPT !.result = NOOP], f,
                         changes.disk[f], update, open))
    /\ UNCHANGED <<pp, dry_run, edcontext, history, sched, pkg, policy>>

CheckStats ==
    /\ \E f \in WatchedFiles, update \in BOOLEAN, open \in BOOLEAN :
          /\ changes.disk[f] # 0
          /\ Tracked(FileChangesCheckAndUpdateStats(
                         dry_run, [changes EXCEPT !.result = NOOP], f,
                         changes.disk[f], update, open))
    /\ UNCHANGED <<pp, dry_run, edcontext, history, sched, pkg, policy>>

CheckDirectory ==
    /\ \E file_set \in Listings({f \in WatchedFiles : changes.disk[f] # 0}),
          update \in BOOLEAN, open \in BOOLEAN, ub \in BOOLEAN :
          Tracked(FileChangesCheckAndUpdateDirectory(
                      dry_run, [changes EXCEPT !.result = NOOP], file_set,
                      GetDirectoryListFromDatabase(changes.db), update, open, ub))
    /\ UNCHANGED <<pp, dry_run, edcontext, history, sched, pkg, policy>>

\* The end of the edit of a file, whose promises left the line list
\* file_start after num_edits edits with the outcome result.
FinishEdit ==
    /\ \E file_start \in ListsOf({La}, 1), num_edits \in 0 .. 1,
          result \in PromiseResults, save_file \in BOOLEAN, saved \in BOOLEAN :
          Tracked(FinishEditContext(
                      dry_run, [changes EXCEPT !.result = result],
                      [file_start |-> file_start, num_edits |-> num_edits],
                      save_file, saved))
    /\ UNCHANGED <<pp, dry_run, edcontext, history, sched, pkg, policy>>

NextChanges ==
    \/ StartAgentRun
    \/ FileChangedOnDisk
    \/ CheckHash
    \/ CheckStats
    \/ CheckDirectory
    \/ FinishEdit

SpecChanges == InitChanges /\ [][NextChanges]_vars

\* The end of the edit of a file whose edit promises ended with outcomes:
\* the outcome handed to FinishEditContext() is the one accumulated over
\* them.
FinishEditOfRun ==
    /\ \E file_start \in ListsOf({La}, 1), num_edits \in 0 .. 1,
          outcomes \in EditOutcomes, save_file \in BOOLEAN, saved \in BOOLEAN :
          LET c == [changes EXCEPT !.result = AccumulatedOutcome(NOOP, outcomes)]
              ec == [file_start |-> file_start, num_edits |-> num_edits]
          IN Tracked(FinishEditContext(
                         dry_run,
                         [c EXCEPT !.finish =
                             [called |-> TRUE, outcomes |-> outcomes,
                              before |-> changes.edfile,
                              in_memory |-> IF num_edits > 0 THEN file_start
                                            ELSE changes.edfile,
                              save_file |-> save_file,
                              released |-> ContextReleased(dry_run, c, ec, save_file,
                                                           saved)]],
                         ec, save_file, saved))
    /\ UNCHANGED <<pp, dry_run, edcontext, history, sched, pkg, policy>>

NextFinish ==
    \/ StartAgentRun
    \/ FinishEditOfRun

SpecFinish == InitChanges /\ [][NextFinish]_vars

(***************************************************************************)
(* Package promises (package_module.c).                                    *)
(*                                                                         *)
(* The provider is the package module process; every request made to it    *)
(* goes through PackageWrapperCommunicate().  An operation of the agent    *)
(* is modelled by the outcome it returns (res), the requests it sends      *)
(* (sent) and the outcomes of its sub-operations (subs).  What the         *)
(* provider and the package databases answer is an input e of the          *)
(* operation:                                                              *)
(*   e.api_ok           the provider answers supports-api-version with 1   *)
(*   e.data             the reply to get-package-data (type of package,    *)
(*                      and whether a file package agrees with the policy) *)
(*   e.in_cache         IsPackageInCache() for the promised package        *)
(*   e.refresh          the ifelapsed lock of a cache update is granted    *)
(*   e.list_ok          a list request succeeds and the database is        *)
(*                      written                                            *)
(*   e.latest_versions  architectures with an entry in the updates         *)
(*                      database, <<>> when the package has no entry       *)
(*   e.update_in_cache  IsPackageInCache() for the update of an            *)
(*                      architecture                                       *)
(*   e.command_ok       an install or remove request succeeds              *)
(*   e.installed        IsPackageInCache() after the caches are re-read    *)
(* The agent is not simulating changes in a chroot.                        *)
(***************************************************************************)
NoArch == "any"
NoVersion == "unspecified"
Archs == {"x", "y"}

UpdateCacheRequest(type) ==
    CASE type = "installed" -> "list-installed"
      [] type = "updates" -> "list-updates"
      [] type = "local_updates" -> "list-updates-local"

UpdateCache(e, type) == [ok |-> e.list_ok, sent |-> {UpdateCacheRequest(type)}]

\* The cache is re-read when forced or when the ifelapsed lock of the cache
\* is granted.
UpdateSinglePackageModuleCache(e, type, force_update) ==
    IF force_update \/ e.refresh
    THEN UpdateCache(e, type)
    ELSE [ok |-> TRUE, sent |-> {}]

\* found is what the installed packages database holds for the key.
IsPackageInCache(e, ctx, found) ==
    [is_in_cache |-> found,
     sent |-> IF ctx THEN UpdateSinglePackageModuleCache(e, "installed", FALSE).sent
              ELSE {}]

\* A variant that takes the provider's word for the change.
ChangeAssumed(e, arch, action_type) ==
    [res |-> CHANGE,
     sent |-> UpdateCache(e, "installed").sent \cup UpdateCache(e, "local_updates").sent]

ValidateChangedPackage(e, arch, action_type) ==
    IF ~UpdateCache(e, "installed").ok
    THEN [res |-> FAIL, sent |-> UpdateCache(e, "installed").sent]
    ELSE LET lists == UpdateCache(e, "installed").sent
                          \cup UpdateCache(e, "local_updates").sent
             check == IsPackageInCache(e, FALSE,
                          e.installed[IF arch = NoArch THEN "x" ELSE arch])
         IN IF ~UpdateCache(e, "local_updates").ok
            THEN [res |-> FAIL, sent |-> lists]
            ELSE [res |-> CASE check.is_in_cache = 1 ->
                                   IF action_type = "present" THEN CHANGE ELSE FAIL
                            [] check.is_in_cache = 0 ->
                                   IF action_type = "present" THEN FAIL ELSE CHANGE
                            [] OTHER -> FAIL,
                  sent |-> lists \cup check.sent]

RemovePackage(e) ==
    [res |-> IF e.command_ok THEN CHANGE ELSE FAIL, sent |-> {"remove"}]

InstallPackageGeneric(e, type) ==
    [res |-> IF e.command_ok THEN CHANGE ELSE FAIL,
     sent |-> {IF type = "file" THEN "file-install" ELSE "repo-install"}]

InstallPackage(e, type) == InstallPackageGeneric(e, type)

FileInstallPackage(dry, e, arch, is_in_cache) ==
    IF is_in_cache = 1 THEN [res |-> NOOP, sent |-> {}, subs |-> {}]
    ELSE IF MakingChanges(dry)
    THEN LET install == InstallPackage(e, "file")
             validate == ValidateChangedPackage(e, arch, "present")
         IN IF install.res = CHANGE
            THEN [res |-> validate.res, sent |-> install.sent \cup validate.sent,
                  subs |-> {install.res, validate.res}]
            ELSE [res |-> install.res, sent |-> install.sent, subs |-> {install.res}]
    ELSE [res |-> WARN, sent |-> {}, subs |-> {WARN}]

GetVersionsFromUpdates(e) ==
    [updates_list |-> e.latest_versions,
     sent |-> UpdateSinglePackageModuleCache(e, "updates", FALSE).sent]

RECURSIVE CheckUpdates(_, _, _, _, _)
\* The loop of RepoInstall() over the possible updates, from the i-th on.
CheckUpdates(dry, e, arch, i, acc) ==
    IF i > Len(e.latest_versions) THEN acc
    ELSE IF arch # NoArch /\ arch # e.latest_versions[i]
    THEN CheckUpdates(dry, e, arch, i + 1, acc)
    ELSE CheckUpdates(dry, e, arch, i + 1,
             LET update_arch == e.latest_versions[i]
                 check == IsPackageInCache(e, TRUE, e.update_in_cache[update_arch])
                 update_in_cache == check.is_in_cache
             IN CASE update_in_cache = 1 ->
                       [acc EXCEPT !.res = PromiseResultUpdate(@, NOOP),
                                   !.sent = @ \cup check.sent,
                                   !.subs = @ \cup {NOOP}]
                  [] update_in_cache = -1 ->
                       [acc EXCEPT !.res = PromiseResultUpdate(@, FAIL),
                                   !.sent = @ \cup check.sent,
                                   !.subs = @ \cup {FAIL}]
                  [] OTHER ->
                       IF MakingChanges(dry)
                       THEN [acc EXCEPT !.packages_to_install = Append(@, update_arch),
                                        !.sent = @ \cup check.sent]
                       ELSE [acc EXCEPT !.res = PromiseResultUpdate(@, WARN),
                                        !.sent = @ \cup check.sent,
                                        !.subs = @ \cup {WARN}])

RECURSIVE ValidateInstalled(_, _, _, _)
\* The loop of RepoInstall() over the packages it asked to install.
ValidateInstalled(e, packages_to_install, i, acc) ==
    IF i > Len(packages_to_install) THEN acc
    ELSE ValidateInstalled(e, packages_to_install, i + 1,
             LET validate == ValidateChangedPackage(e, packages_to_install[i], "present")
             IN [acc EXCEPT !.res = PromiseResultUpdate(@, validate.res),
                            !.sent = @ \cup validate.sent,
                            !.subs = @ \cup {validate.res},
                            !.verified = TRUE])

\* The end of RepoInstall(): the packages to install are sent to the provider
\* in one request and each is validated.
InstallChecked(e, checked, install) ==
    IF checked.packages_to_install = <<>>
    THEN [res |-> checked.res, sent |-> checked.sent, subs |-> checked.subs,
          verified |-> FALSE]
    ELSE ValidateInstalled(e, checked.packages_to_install, 1,
             [res |-> install.res,
              sent |-> checked.sent \cup install.sent,
              subs |-> checked.subs \cup {install.res},
              verified |-> FALSE])

\* A variant that installs whatever the cache holds.
RepoInstallUnconditional(dry, e, version, arch, is_in_cache) ==
    IF MakingChanges(dry)
    THEN [res |-> InstallPackage(e, "repo").res, sent |-> InstallPackage(e, "repo").sent,
          subs |-> {InstallPackage(e, "repo").res}, verified |-> FALSE]
    ELSE [res |-> WARN, sent |-> {}, subs |-> {WARN}, verified |-> FALSE]

RepoInstall(dry, e, version, arch, is_in_cache) ==
    IF is_in_cache = 0
    THEN LET update == UpdateSinglePackageModuleCache(e, "updates", FALSE)
             install == InstallPackage(e, "repo")
         IN IF MakingChanges(dry)
            THEN [res |-> install.res, sent |-> update.sent \cup install.sent,
                  subs |-> {install.res}, verified |-> FALSE]
            ELSE [res |-> WARN, sent |-> update.sent, subs |-> {WARN},
                  verified |-> FALSE]
    ELSE IF version # "latest"
    THEN [res |-> NOOP, sent |-> {}, subs |-> {}, verified |-> FALSE]
    ELSE LET latest_versions == GetVersionsFromUpdates(e)
         IN IF latest_versions.updates_list = <<>>
            THEN [res |-> NOOP, sent |-> latest_versions.sent, subs |-> {},
                  verified |-> FALSE]
            ELSE InstallChecked(e,
                     CheckUpdates(dry, e, arch, 1,
                         [res |-> NOOP, sent |-> latest_versions.sent, subs |-> {},
                          packages_to_install |-> <<>>]),
                     InstallPackageGeneric(e, "repo"))

\* The end of RepoInstallPackage(): an installation RepoInstall() did not
\* verify is validated.
VerifyInstalled(done, validate) ==
    IF done.res = CHANGE /\ ~done.verified
    THEN [res |-> validate.res, sent |-> done.sent \cup validate.sent,
          subs |-> done.subs \cup {validate.res}]
    ELSE [res |-> done.res, sent |-> done.sent, subs |-> done.subs]

RepoInstallPackage(dry, e, version, arch, is_in_cache) ==
    VerifyInstalled(RepoInstall(dry, e, version, arch, is_in_cache),
                    ValidateChangedPackage(e, arch, "present"))

CheckPolicyAndPackageInfoMatch(p, e) == p.version # "latest" /\ e.data.match

GetPackageData(e) == [type |-> e.data.type, sent |-> {"get-package-data"}]

\* The outcome of an operation that follows the requests in asked.
After(asked, done) ==
    [res |-> done.res, sent |-> asked \cup done.sent, subs |-> done.subs]

HandlePresentPromiseAction(dry, e, p) ==
    LET package_info == GetPackageData(e)
        check == IsPackageInCache(e, TRUE, e.in_cache)
        asked == package_info.sent \cup check.sent
    IN CASE package_info.type = "none" ->
               [res |-> FAIL, sent |-> package_info.sent, subs |-> {FAIL}]
         [] package_info.type = "file" /\ ~CheckPolicyAndPackageInfoMatch(p, e) ->
               [res |-> FAIL, sent |-> package_info.sent, subs |-> {FAIL}]
         [] OTHER ->
               IF check.is_in_cache = -1
               THEN [res |-> FAIL, sent |-> asked, subs |-> {FAIL}]
               ELSE After(asked,
                        IF package_info.type = "file"
                        THEN FileInstallPackage(dry, e, p.arch, check.is_in_cache)
                        ELSE RepoInstallPackage(dry, e, p.version, p.arch,
                                                check.is_in_cache))

HandleAbsentPromiseAction(dry, e, p) ==
    LET check == IsPackageInCache(e, TRUE, e.in_cache)
        remove == RemovePackage(e)
        validate == ValidateChangedPackage(e, p.arch, "absent")
    IN CASE p.version = "latest" -> [res |-> FAIL, sent |-> {}, subs |-> {FAIL}]
         [] check.is_in_cache = 1 ->
               IF ~MakingChanges(dry)
               THEN [res |-> WARN, sent |-> check.sent, subs |-> {WARN}]
               ELSE IF remove.res = CHANGE
               THEN [res |-> validate.res,
                     sent |-> check.sent \cup remove.sent \cup validate.sent,
                     subs |-> {remove.res, validate.res}]
               ELSE [res |-> remove.res, sent |-> check.sent \cup remove.sent,
                     subs |-> {remove.res}]
         [] check.is_in_cache = -1 -> [res |-> FAIL, sent |-> check.sent, subs |-> {FAIL}]
         [] OTHER -> [res |-> NOOP, sent |-> check.sent, subs |-> {}]

\* The global lock "new_packages_promise_lock" has no ifelapsed time: it is
\* granted whenever no other process holds it.
AcquireGlobalPackagePromiseLock(holder) == AcquireLock(holder, TRUE)

YieldGlobalPackagePromiseLock(holder) == YieldCurrentLock(holder)

NegotiateSupportedAPIVersion(e) ==
    [api_version |-> IF e.api_ok THEN 1 ELSE -1, sent |-> {"supports-api-version"}]

NewPackageModuleWrapper(e) ==
    [wrapper |-> NegotiateSupportedAPIVersion(e).api_version = 1,
     sent |-> NegotiateSupportedAPIVersion(e).sent]

GlobalLockNeverRefused(package_lock) == FALSE

GlobalLockRefused(package_lock) == package_lock.lock = NULL

\* UpdatePackagesCache() for the package module of the default inventory:
\* the requests it sends, none when the global lock is refused.
UpdatePackagesCache(e, package_lock, force_update) ==
    LET module_wrapper == NewPackageModuleWrapper(e)
    IN IF GlobalLockRefused(package_lock) THEN {}
       ELSE IF ~module_wrapper.wrapper THEN module_wrapper.sent
       ELSE module_wrapper.sent
            \cup UpdateSinglePackageModuleCache(e, "installed", force_update).sent
            \cup UpdateSinglePackageModuleCache(e,
                     IF force_update THEN "updates" ELSE "local_updates",
                     force_update).sent

\* The lock of a cache UpdateSinglePackageModuleCache() acquired and
\* yielded: none is asked for when the update is forced.
SingleCacheLocks(e, type, force_update) ==
    IF force_update THEN NoLocks
    ELSE IF e.refresh THEN [acquired |-> 1, yielded |-> 1]
    ELSE NoLocks

NoPackageLocks == [global |-> NoLocks, installed |-> NoLocks, updates |-> NoLocks]

\* The locks UpdatePackagesCache() acquired and yielded: the global lock,
\* and inside it the locks of the two caches.
PackagesCacheLocks(e, package_lock, force_update) ==
    LET module_wrapper == NewPackageModuleWrapper(e)
    IN IF package_lock.lock = NULL THEN NoPackageLocks
       ELSE IF ~module_wrapper.wrapper
       THEN [NoPackageLocks EXCEPT !.global = [acquired |-> 1, yielded |-> 1]]
       ELSE [global |-> [acquired |-> 1, yielded |-> 1],
             installed |-> SingleCacheLocks(e, "installed", force_update),
             updates |-> SingleCacheLocks(e,
                             IF force_update THEN "updates" ELSE "local_updates",
                             force_update)]

\* Evaluation of a packages promise: the global lock is taken first, and
\* the promise is skipped when it is refused.
HandleNewPackagePromiseType(dry, e, p, package_lock) ==
    LET module_wrapper == NewPackageModuleWrapper(e)
    IN IF package_lock.lock = NULL
       THEN [res |-> SKIPPED, sent |-> {}, subs |-> {}]
       ELSE IF ~module_wrapper.wrapper
       THEN [res |-> FAIL, sent |-> module_wrapper.sent, subs |-> {FAIL}]
       ELSE After(module_wrapper.sent,
                IF p.policy = "present"
                THEN HandlePresentPromiseAction(dry, e, p)
                ELSE HandleAbsentPromiseAction(dry, e, p))

NoPackagePromise == [policy |-> "none", version |-> NoVersion, arch |-> NoArch]

PackagePromises ==
    [policy : {"present", "absent"}, version : {NoVersion, "latest", "1"},
     arch : {NoArch, "x"}]

DataReplies ==
    {[type |-> "none", match |-> TRUE], [type |-> "repo", match |-> TRUE],
     [type |-> "file", match |-> TRUE], [type |-> "file", match |-> FALSE]}

ProviderReplies ==
    [api_ok : BOOLEAN, data : DataReplies, in_cache : {-1, 0, 1}, refresh : BOOLEAN, list_ok : BOOLEAN,
     latest_versions : {<<>>, <<"x", "y">>},
     update_in_cache : [Archs -> {-1, 0, 1}], command_ok : BOOLEAN,
     installed : [Archs -> {0, 1}]]

\* What a cache refresh depends on.
CacheReplies == [api_ok : BOOLEAN, refresh : BOOLEAN, list_ok : BOOLEAN]

\* A request as the provider receives it: the command, the operation of
\* the agent that sent it, and whether the agent held the global lock.
Requests(sent, by, package_lock) ==
    {[cmd |-> c, by |-> by, held |-> package_lock.lock # NULL] : c \in sent}

InitPackages ==
    /\ pp = NoPromise
    /\ dry_run \in BOOLEAN
    /\ edcontext = [file_start |-> <<>>, num_edits |-> 0]
    /\ history = <<>>
    /\ sched = NoSchedule
    /\ changes = NoChanges
    /\ policy = NoPolicy
    /\ \E h \in {"free", "other"} :
           pkg = [pc |-> "start", promise |-> NoPackagePromise, holder |-> h,
                  requests |-> {}, result |-> NOOP, subs |-> {},
                  locks |-> NoPackageLocks, refreshed |-> FALSE]

\* What the evaluation of a promise leaves: its outcome, the requests the
\* provider received, and the global lock given back.
Evaluated(kept, package_lock) ==
    pkg' = [pkg EXCEPT
        !.pc = "kept",
        !.holder = YieldGlobalPackagePromiseLock(
                       IF package_lock.lock # NULL THEN "agent" ELSE @),
        !.requests = @ \cup Requests(kept.sent, pkg.promise.policy, package_lock),
        !.result = kept.res,
        !.subs = kept.subs]

\* The agent evaluates the packages promise.
KeepPackagePromise ==
    /\ pkg.pc = "promised"
    /\ \E e \in ProviderReplies :
           Evaluated(HandleNewPackagePromiseType(dry_run, e, pkg.promise,
                         AcquireGlobalPackagePromiseLock(pkg.holder)),
                     AcquireGlobalPackagePromiseLock(pkg.holder))
    /\ UNCHANGED <<pp, dry_run, edcontext, history, sched, changes, policy>>

\* The agent refreshes the package caches, at the start of a run or after
\* a promise.
RefreshPackagesCache ==
    /\ pkg.pc \in {"start", "kept"}
    /\ \E e \in CacheReplies, force_update \in BOOLEAN :
           LET package_lock == AcquireGlobalPackagePromiseLock(pkg.holder)
           IN pkg' = [pkg EXCEPT
                  !.locks = PackagesCacheLocks(e, package_lock, force_update),
                  !.refreshed = TRUE,
                  !.holder = YieldGlobalPackagePromiseLock(
                                 IF package_lock.lock # NULL THEN "agent" ELSE @),
                  !.requests = @ \cup Requests(UpdatePackagesCache(e, package_lock,
                                                   force_update),
                                               "cache", package_lock)]
    /\ UNCHANGED <<pp, dry_run, edcontext, history, sched, changes, policy>>

\* The agent comes to the next packages promise of the policy.
NextPackagePromise ==
    /\ pkg.pc \in {"start", "kept"}
    /\ \E p \in PackagePromises :
           pkg' = [pkg EXCEPT !.pc = "promised", !.promise = p, !.requests = {},
                              !.result = NOOP, !.subs = {},
                              !.locks = NoPackageLocks, !.refreshed = FALSE]
    /\ UNCHANGED <<pp, dry_run, edcontext, history, sched, changes, policy>>

\* Another agent process takes or gives back the global lock.
OtherAgentTakesLock ==
    /\ pkg.holder = "free"
    /\ pkg' = [pkg EXCEPT !.holder = "other"]
    /\ UNCHANGED <<pp, dry_run, edcontext, history, sched, changes, policy>>

OtherAgentYieldsLock ==
    /\ pkg.holder = "other"
    /\ pkg' = [pkg EXCEPT !.holder = "free"]
    /\ UNCHANGED <<pp, dry_run, edcontext, history, sched, changes, policy>>

NextPackages ==
    \/ KeepPackagePromise
    \/ RefreshPackagesCache
    \/ NextPackagePromise
    \/ OtherAgentTakesLock
    \/ OtherAgentYieldsLock

SpecPackages == InitPackages /\ [][NextPackages]_vars

(***************************************************************************)
(* Single operations of the change tracker.                                *)
(*                                                                         *)
(* The tracker is observed one call at a time: changes.last holds the      *)
(* arguments of the last call (the path, update, whether the database      *)
(* could be opened), what the database held for the path before it         *)
(* (prior), the files the call found gone, the value it returned and the   *)
(* number of lines it appended to the change log; changes.log holds the    *)
(* kinds of the log lines of the call and changes.result its outcome.      *)
(* changes.writable tells whether the change log file is writable by the   *)
(* group or by others.                                                     *)
(***************************************************************************)
\* A variant that tells whether the file was seen before.
HashSeenBefore(dry, c, filename, digest, update, open) ==
    open /\ c.db.hash[filename] # 0

\* The value FileChangesCheckAndUpdateHash() returns: true when the file is
\* reported as changed.
FileChangesCheckAndUpdateHashReturn(dry, c, filename, digest, update, open) ==
    LET found == c.db.hash[filename] # 0
        different == ~found \/ c.db.hash[filename] # digest
    IN IF ~open THEN FALSE
       ELSE IF ~different THEN FALSE
       ELSE IF ~MakingInternalChanges(dry) THEN TRUE
       ELSE IF ~found \/ update THEN found
       ELSE TRUE

\* FileChangesLogChange(): an error is logged when the log file is writable
\* by the group or by others; then the line is appended when the file can
\* be opened.
FileChangesLogChange(c, status, fopen) ==
    IF ~fopen THEN [c |-> c, ret |-> FALSE, error |-> TRUE]
    ELSE [c |-> [c EXCEPT !.log = @ \cup {status}], ret |-> TRUE,
          error |-> c.writable]

\* The handles of the changes database a call opened with OpenChangesDB()
\* and closed with CloseDB(), by return path.
HashHandles(dry, c, filename, digest, update, open) ==
    IF ~open THEN [opened |-> 0, closed |-> 0]
    ELSE [opened |-> 1, closed |-> 1]

\* A variant that returns early without closing when the stat is unchanged.
StatsHandlesLeaked(dry, c, file, sb, update, open) ==
    IF ~open THEN [opened |-> 0, closed |-> 0]
    ELSE IF c.db.stat[file] = 0 THEN [opened |-> 1, closed |-> 1]
    ELSE IF c.db.stat[file] = sb THEN [opened |-> 1, closed |-> 0]
    ELSE [opened |-> 1, closed |-> 1]

StatsHandles(dry, c, file, sb, update, open) ==
    IF ~open THEN [opened |-> 0, closed |-> 0]
    ELSE IF c.db.stat[file] = 0 THEN [opened |-> 1, closed |-> 1]
    ELSE IF c.db.stat[file] = sb THEN [opened |-> 1, closed |-> 1]
    ELSE [opened |-> 1, closed |-> 1]

DirectoryHandles(dry, c, file_set, db_file_set, update, open, ub) ==
    IF ~open THEN [opened |-> 0, closed |-> 0]
    ELSE [opened |-> 1, closed |-> 1]

NoHandles == [opened |-> 0, closed |-> 0]

NoCall ==
    [op |-> "none", file |-> La, update |-> FALSE, open |-> TRUE, prior |-> 0,
     gone |-> {}, ret |-> FALSE, lines |-> 0, files |-> <<>>, handles |-> NoHandles]

InitTracker ==
    /\ pp = NoPromise
    /\ dry_run \in BOOLEAN
    /\ edcontext = [file_start |-> <<>>, num_edits |-> 0]
    /\ history = <<>>
    /\ sched = NoSchedule
    /\ pkg = NoPackages
    /\ policy = NoPolicy
    /\ \E disk \in [WatchedFiles -> {0, 1}], writable \in BOOLEAN :
          changes = [db |-> [hash |-> [f \in WatchedFiles |-> 0],
                             stat |-> [f \in WatchedFiles |-> 0], dir |-> <<>>],
                     log |-> {}, disk |-> disk, result |-> NOOP,
                     writable |-> writable, last |-> NoCall]

\* The tracker as a call finds it: no outcome and no log line yet.
Called(c) == [c EXCEPT !.result = NOOP, !.log = {}]

\* The tracker after a call that left c and is described by call.
Returned(c, call) == changes' = [c EXCEPT !.last = call]

TrackHash ==
    /\ \E f \in WatchedFiles, update \in BOOLEAN, open \in BOOLEAN :
          /\ changes.disk[f] # 0
          /\ Returned(FileChangesCheckAndUpdateHash(
                          dry_run, Called(changes), f, changes.disk[f], update, open),
                      [NoCall EXCEPT !.op = "hash", !.file = f, !.update = update,
                                     !.open = open, !.prior = changes.db.hash[f],
                                     !.handles = HashHandles(dry_run, changes, f,
                                                     changes.disk[f], update, open),
                                     !.ret = FileChangesCheckAndUpdateHashReturn(
                                                 dry_run, changes, f, changes.disk[f],
                                                 update, open)])
    /\ UNCHANGED <<pp, dry_run, edcontext, history, sched, pkg, policy>>

TrackStats ==
    /\ \E f \in WatchedFiles, update \in BOOLEAN, open \in BOOLEAN :
          /\ changes.disk[f] # 0
          /\ Returned(FileChangesCheckAndUpdateStats(
                          dry_run, Called(changes), f, changes.disk[f], update, open),
                      [NoCall EXCEPT !.op = "stats", !.file = f, !.update = update,
                                     !.open = open, !.prior = changes.db.stat[f],
                                     !.handles = StatsHandles(dry_run, changes, f,
                                                     changes.disk[f], update, open)])
    /\ UNCHANGED <<pp, dry_run, edcontext, history, sched, pkg, policy>>

TrackDirectory ==
    /\ \E update \in BOOLEAN, open \in BOOLEAN, ub \in BOOLEAN :
       \E file_set \in Listings({f \in WatchedFiles : changes.disk[f] # 0}) :
          Returned(FileChangesCheckAndUpdateDirectory(
                       dry_run, Called(changes), file_set,
                       GetDirectoryListFromDatabase(changes.db), update, open, ub),
                   [NoCall EXCEPT !.op = "directory", !.update = update, !.open = open,
                                  !.files = file_set,
                                  !.handles = DirectoryHandles(
                                      dry_run, changes, file_set,
                                      GetDirectoryListFromDatabase(changes.db),
                                      update, open, ub),
                                  !.gone = Range(GetDirectoryListFromDatabase(changes.db))
                                               \ Range(file_set)])
    /\ UNCHANGED <<pp, dry_run, edcontext, history, sched, pkg, policy>>

\* A change is written to the change log.
TrackLogChange ==
    /\ \E f \in WatchedFiles, status \in {"N", "C"}, fopen \in BOOLEAN :
          Returned(FileChangesLogChange(Called(changes), status, fopen).c,
                   [NoCall EXCEPT !.op = "log", !.file = f, !.open = fopen,
                                  !.ret = FileChangesLogChange(Called(changes), status,
                                                               fopen).ret,
                                  !.lines = IF FileChangesLogChange(Called(changes),
                                                                    status, fopen).ret
                                            THEN 1 ELSE 0])
    /\ UNCHANGED <<pp, dry_run, edcontext, history, sched, pkg, policy>>

\* A watched file is created, changed or removed on disk.
TrackedFileChanges ==
    /\ \E f \in WatchedFiles : \E v \in {0} \cup Versions(f) :
          /\ v # changes.disk[f]
          /\ changes' = [changes EXCEPT !.disk[f] = v, !.last = NoCall]
    /\ UNCHANGED <<pp, dry_run, edcontext, history, sched, pkg, policy>>

\* The mode of the change log file is changed.
LogModeChanges ==
    /\ changes' = [changes EXCEPT !.writable = ~@, !.last = NoCall]
    /\ UNCHANGED <<pp, dry_run, edcontext, history, sched, pkg, policy>>

\* The next run of the agent is in the other mode (dry-run or not).
TrackerRunStarts ==
    /\ dry_run' = ~dry_run
    /\ changes' = [changes EXCEPT !.last = NoCall]
    /\ UNCHANGED <<pp, edcontext, history, sched, pkg, policy>>

NextTracker ==
    \/ TrackHash
    \/ TrackStats
    \/ TrackDirectory
    \/ TrackLogChange
    \/ TrackedFileChanges
    \/ LogModeChanges
    \/ TrackerRunStarts

SpecTracker == InitTracker /\ [][NextTracker]_vars


(***************************************************************************)
(* The policy DOM (policy.c).                                              *)
(*                                                                         *)
(* A policy holds bundles and bodies; a bundle holds its built-in and its  *)
(* custom sections, a section its promises, a promise its promiser,        *)
(* promisee, class guard and constraints.  A right-value is a scalar (its  *)
(* text a sequence of characters), a list, a function call or a data       *)
(* container.  Source paths and line offsets are left out.                 *)
(***************************************************************************)
NoPromisee == [type |-> "nopromisee"]

RvalScalar(text) == [type |-> "scalar", item |-> text]

FnCallNew(name, args) == [type |-> "fncall", name |-> name, args |-> args]

RvalScalarValue(rval) == rval.item

ConstraintNew(lval, rval, classes, references_body) ==
    [lval |-> lval, rval |-> rval, classes |-> classes,
     references_body |-> references_body]

\* The index of the first constraint of conlist from the i-th on with the
\* left-value (and the class guard, when one is given), 0 when there is none.
RECURSIVE FirstConstraint(_, _, _, _)
FirstConstraint(conlist, lval, classes, i) ==
    IF i > Len(conlist) THEN 0
    ELSE IF conlist[i].lval = lval /\ (classes = "" \/ conlist[i].classes = classes)
    THEN i
    ELSE FirstConstraint(conlist, lval, classes, i + 1)

\* A variant that joins two scalar expressions with "&".
MergedWithAmpersand(old_rval, rval) ==
    CASE rval.type = "fncall" -> FnCallNew("and", <<RvalScalar(RvalScalarValue(old_rval)), rval>>)
      [] rval.type = "scalar" ->
             RvalScalar(<<"(">> \o RvalScalarValue(old_rval) \o <<")", "&", "(">>
                        \o RvalScalarValue(rval) \o <<")">>)

\* The right-value PromiseAppendConstraint() gives an if or ifvarclass
\* constraint that meets an older one.
MergedContext(old_rval, rval) ==
    CASE rval.type = "fncall" -> FnCallNew("and", <<RvalScalar(RvalScalarValue(old_rval)), rval>>)
      [] rval.type = "scalar" ->
             RvalScalar(<<"(">> \o RvalScalarValue(old_rval) \o <<")", ".", "(">>
                        \o RvalScalarValue(rval) \o <<")">>)

\* A variant that appends the constraint whatever the promise holds.
PromiseAppendConstraintAtEnd(promise, lval, rval, references_body) ==
    [promise EXCEPT !.conlist = Append(@, ConstraintNew(lval, rval, "any", references_body))]

PromiseAppendConstraint(promise, lval, rval, references_body) ==
    LET i == FirstConstraint(promise.conlist, lval, "", 1)
    IN IF i = 0
       THEN [promise EXCEPT !.conlist =
                Append(@, ConstraintNew(lval, rval, "any", references_body))]
       ELSE IF lval \in {"ifvarclass", "if"}
       THEN [promise EXCEPT !.conlist[i] =
                ConstraintNew(lval, MergedContext(promise.conlist[i].rval, rval),
                              "any", references_body)]
       ELSE [promise EXCEPT !.conlist[i] =
                ConstraintNew(lval, rval, "any", references_body)]

BodyAppendConstraint(body, lval, rval, classes, references_body) ==
    LET i == FirstConstraint(body.conlist, lval, classes, 1)
    IN IF i = 0
       THEN [body EXCEPT !.conlist =
                Append(@, ConstraintNew(lval, rval, classes, references_body))]
       ELSE [body EXCEPT !.conlist[i] =
                ConstraintNew(lval, rval, classes, references_body)]

PolicyNew == [bundles |-> <<>>, bodies |-> <<>>]

\* The bundle PolicyAppendBundle() appends to the policy.
PolicyAppendBundle(ns, name, type, args) ==
    [ns |-> ns, name |-> name, type |-> type, args |-> args,
     sections |-> <<>>, custom_sections |-> <<>>]

\* The body PolicyAppendBody() appends to the policy.
PolicyAppendBody(ns, name, type, args, is_custom) ==
    LET body == [ns |-> ns, name |-> name, type |-> type, args |-> args,
                 conlist |-> <<>>, is_custom |-> is_custom]
    IN IF name = "service_method"
       THEN BodyAppendConstraint(body, "service_bundle",
                FnCallNew("standard_services",
                          <<RvalScalar(<<"$", "(", "p", ")">>),
                            RvalScalar(<<"$", "(", "s", ")">>)>>),
                "any", FALSE)
       ELSE body

IsBuiltInPromiseType(promise_type) ==
    promise_type \in {"vars", "classes", "files", "packages", "reports", "commands"}

RECURSIVE FindSection(_, _, _)
FindSection(sections, promise_type, i) ==
    IF i > Len(sections) THEN 0
    ELSE IF sections[i].promise_type = promise_type THEN i
    ELSE FindSection(sections, promise_type, i + 1)

\* A variant that never looks for an existing section.
BundleAppendSectionAnew(bundle, promise_type) ==
    LET section == [promise_type |-> promise_type, promises |-> <<>>]
    IN IF IsBuiltInPromiseType(promise_type)
       THEN [bundle |-> [bundle EXCEPT !.sections = Append(@, section)],
             custom |-> FALSE, at |-> Len(bundle.sections) + 1]
       ELSE [bundle |-> [bundle EXCEPT !.custom_sections = Append(@, section)],
             custom |-> TRUE, at |-> Len(bundle.custom_sections) + 1]

\* BundleAppendSection(): the bundle with the section of the type, and where
\* the section is.
BundleAppendSection(bundle, promise_type) ==
    LET section == [promise_type |-> promise_type, promises |-> <<>>]
    IN IF FindSection(bundle.sections, promise_type, 1) # 0
       THEN [bundle |-> bundle, custom |-> FALSE,
             at |-> FindSection(bundle.sections, promise_type, 1)]
       ELSE IF FindSection(bundle.custom_sections, promise_type, 1) # 0
       THEN [bundle |-> bundle, custom |-> TRUE,
             at |-> FindSection(bundle.custom_sections, promise_type, 1)]
       ELSE IF IsBuiltInPromiseType(promise_type)
       THEN [bundle |-> [bundle EXCEPT !.sections = Append(@, section)],
             custom |-> FALSE, at |-> Len(bundle.sections) + 1]
       ELSE [bundle |-> [bundle EXCEPT !.custom_sections = Append(@, section)],
             custom |-> TRUE, at |-> Len(bundle.custom_sections) + 1]

\* The promise BundleSectionAppendPromise() appends to a section; varclasses
\* is <<>> when the caller passes none.
BundleSectionAppendPromise(promiser, promisee, classes, varclasses) ==
    LET promise == [promiser |-> promiser, promisee |-> promisee,
                    classes |-> IF classes # "" THEN classes ELSE "any",
                    conlist |-> <<>>]
    IN IF varclasses # <<>>
       THEN PromiseAppendConstraint(promise, "ifvarclass", RvalScalar(varclasses), TRUE)
       ELSE promise

\* The bundle with the promise appended to the section that
\* BundleAppendSection() returned as where.
WithPromise(where, promise) ==
    IF where.custom
    THEN [where.bundle EXCEPT !.custom_sections[where.at].promises = Append(@, promise)]
    ELSE [where.bundle EXCEPT !.sections[where.at].promises = Append(@, promise)]

(***************************************************************************)
(* The policy as JSON.  A JSON object is a record, a JSON array a          *)
(* sequence, a JSON string the text it holds.                              *)
(***************************************************************************)
RECURSIVE EscapeQuotes(_)
EscapeQuotes(raw) ==
    IF raw = <<>> THEN <<>>
    ELSE IF Head(raw) \in {"'", "\""}
    THEN <<"\\", Head(raw)>> \o EscapeQuotes(Tail(raw))
    ELSE <<Head(raw)>> \o EscapeQuotes(Tail(raw))

RECURSIVE AttributeValueToJson(_, _)
RECURSIVE AttributeValuesToJson(_, _)
\* The loops of AttributeValueToJson() over the items of a list and over the
\* arguments of a function call, from the i-th on.
AttributeValuesToJson(rlist, i) ==
    IF i > Len(rlist) THEN <<>>
    ELSE <<AttributeValueToJson(rlist[i], FALSE)>> \o AttributeValuesToJson(rlist, i + 1)

AttributeValueToJson(rval, symbolic_reference) ==
    CASE rval.type = "container" -> rval.item
      [] rval.type = "scalar" ->
             [type |-> IF symbolic_reference THEN "symbol" ELSE "string",
              value |-> EscapeQuotes(rval.item)]
      [] rval.type = "list" ->
             [type |-> "list", value |-> AttributeValuesToJson(rval.item, 1)]
      [] rval.type = "fncall" ->
             [type |-> "functionCall", name |-> rval.name,
              arguments |-> AttributeValuesToJson(rval.args, 1)]

CreateContextAsJson(name, children_name, children) ==
    IF children_name = "promises"
    THEN [name |-> name, promises |-> children]
    ELSE [name |-> name, attributes |-> children]

RECURSIVE BodyContextsFrom(_, _, _, _, _)
\* The loop of BodyContextsToJson() from the i-th constraint on.
BodyContextsFrom(constraints, i, json_contexts, json_attributes, current_context) ==
    IF i > Len(constraints)
    THEN Append(json_contexts,
                CreateContextAsJson(current_context, "attributes", json_attributes))
    ELSE LET cp == constraints[i]
             json_attribute == [lval |-> cp.lval,
                                rval |-> AttributeValueToJson(cp.rval, FALSE)]
         IN IF current_context # cp.classes
            THEN BodyContextsFrom(constraints, i + 1,
                     Append(json_contexts,
                            CreateContextAsJson(current_context, "attributes",
                                                json_attributes)),
                     <<json_attribute>>, cp.classes)
            ELSE BodyContextsFrom(constraints, i + 1, json_contexts,
                     Append(json_attributes, json_attribute), current_context)

BodyContextsToJson(constraints) == BodyContextsFrom(constraints, 1, <<>>, <<>>, "any")

RECURSIVE PromiseAttributesToJson(_, _)
PromiseAttributesToJson(conlist, k) ==
    IF k > Len(conlist) THEN <<>>
    ELSE <<[lval |-> conlist[k].lval,
            rval |-> AttributeValueToJson(conlist[k].rval, conlist[k].references_body)]>>
         \o PromiseAttributesToJson(conlist, k + 1)

RECURSIVE PromiseeListToJson(_, _)
PromiseeListToJson(rlist, i) ==
    IF i > Len(rlist) THEN <<>>
    ELSE <<RvalScalarValue(rlist[i])>> \o PromiseeListToJson(rlist, i + 1)

PromiseToJson(promise) ==
    CASE promise.promisee.type = "scalar" ->
             [promiser |-> promise.promiser, promisee |-> promise.promisee.item,
              attributes |-> PromiseAttributesToJson(promise.conlist, 1)]
      [] promise.promisee.type = "list" ->
             [promiser |-> promise.promiser,
              promisee |-> PromiseeListToJson(promise.promisee.item, 1),
              attributes |-> PromiseAttributesToJson(promise.conlist, 1)]
      [] OTHER ->
             [promiser |-> promise.promiser,
              attributes |-> PromiseAttributesToJson(promise.conlist, 1)]

RECURSIVE BundleContextsFrom(_, _, _, _, _)
\* The loop of BundleContextsToJson() from the ppi-th promise on.
BundleContextsFrom(promises, ppi, json_contexts, json_promises, current_context) ==
    IF ppi > Len(promises)
    THEN IF Len(json_promises) > 0
         THEN Append(json_contexts,
                     CreateContextAsJson(current_context, "promises", json_promises))
         ELSE json_contexts
    ELSE LET promise == promises[ppi]
             first == IF current_context = "" THEN promise.classes ELSE current_context
         IN IF first # promise.classes
            THEN BundleContextsFrom(promises, ppi + 1,
                     Append(json_contexts,
                            CreateContextAsJson(first, "promises", json_promises)),
                     <<PromiseToJson(promise)>>, promise.classes)
            ELSE BundleContextsFrom(promises, ppi + 1, json_contexts,
                     Append(json_promises, PromiseToJson(promise)), first)

BundleContextsToJson(promises) == BundleContextsFrom(promises, 1, <<>>, <<>>, "")

RECURSIVE PromiseTypesToJson(_, _)
PromiseTypesToJson(sections, i) ==
    IF i > Len(sections) THEN <<>>
    ELSE <<[name |-> sections[i].promise_type,
            contexts |-> BundleContextsToJson(sections[i].promises)]>>
         \o PromiseTypesToJson(sections, i + 1)

BundleToJson(bundle) ==
    [namespace |-> bundle.ns, name |-> bundle.name, bundleType |-> bundle.type,
     arguments |-> bundle.args,
     promiseTypes |-> PromiseTypesToJson(bundle.sections, 1)]

BodyToJson(body) ==
    [namespace |-> body.ns, name |-> body.name, bodyType |-> body.type,
     arguments |-> body.args, contexts |-> BodyContextsToJson(body.conlist)]

PolicyToJson(p) ==
    [bundles |-> [i \in DOMAIN p.bundles |-> BundleToJson(p.bundles[i])],
     bodies |-> [i \in DOMAIN p.bodies |-> BodyToJson(p.bodies[i])]]

RECURSIVE RvalFromJson(_)
RECURSIVE RvalsFromJson(_, _)
RvalsFromJson(json_list, i) ==
    IF i > Len(json_list) THEN <<>>
    ELSE <<RvalFromJson(json_list[i])>> \o RvalsFromJson(json_list, i + 1)

RvalFromJson(json_rval) ==
    CASE json_rval.type \in {"string", "symbol"} -> RvalScalar(json_rval.value)
      [] json_rval.type = "list" ->
             [type |-> "list", item |-> RvalsFromJson(json_rval.value, 1)]
      [] json_rval.type = "functionCall" ->
             FnCallNew(json_rval.name, RvalsFromJson(json_rval.arguments, 1))

PromiseAppendConstraintJson(promise, json_constraint) ==
    PromiseAppendConstraint(promise, json_constraint.lval,
                            RvalFromJson(json_constraint.rval),
                            json_constraint.rval.type = "symbol")

RECURSIVE PromiseConstraintsFromJson(_, _, _)
PromiseConstraintsFromJson(promise, json_attributes, i) ==
    IF i > Len(json_attributes) THEN promise
    ELSE PromiseConstraintsFromJson(
             PromiseAppendConstraintJson(promise, json_attributes[i]),
             json_attributes, i + 1)

\* The promise BundleSectionAppendPromiseJson() appends to the section.
BundleSectionAppendPromiseJson(json_promise, context) ==
    PromiseConstraintsFromJson(
        BundleSectionAppendPromise(json_promise.promiser, NoPromisee, context, <<>>),
        json_promise.attributes, 1)

RECURSIVE PromisesFromJson(_, _, _, _, _)
\* The loops of BundleAppendSectionJson() from the j-th promise of the i-th
\* context on.
PromisesFromJson(bundle, where, json_contexts, i, j) ==
    IF i > Len(json_contexts) THEN bundle
    ELSE IF j > Len(json_contexts[i].promises)
    THEN PromisesFromJson(bundle, where, json_contexts, i + 1, 1)
    ELSE PromisesFromJson(
             WithPromise([where EXCEPT !.bundle = bundle],
                         BundleSectionAppendPromiseJson(json_contexts[i].promises[j],
                                                        json_contexts[i].name)),
             where, json_contexts, i, j + 1)

\* The bundle after BundleAppendSectionJson().
BundleAppendSectionJson(bundle, json_promise_type) ==
    PromisesFromJson(BundleAppendSection(bundle, json_promise_type.name).bundle,
                     BundleAppendSection(bundle, json_promise_type.name),
                     json_promise_type.contexts, 1, 1)

RECURSIVE SectionsFromJson(_, _, _)
SectionsFromJson(bundle, json_promise_types, i) ==
    IF i > Len(json_promise_types) THEN bundle
    ELSE SectionsFromJson(BundleAppendSectionJson(bundle, json_promise_types[i]),
                          json_promise_types, i + 1)

PolicyAppendBundleJson(json_bundle) ==
    SectionsFromJson(
        PolicyAppendBundle(json_bundle.namespace, json_bundle.name,
                           json_bundle.bundleType, json_bundle.arguments),
        json_bundle.promiseTypes, 1)

BodyAppendConstraintJson(body, json_constraint, context) ==
    BodyAppendConstraint(body, json_constraint.lval, RvalFromJson(json_constraint.rval),
                         context, json_constraint.rval.type = "symbol")

RECURSIVE BodyConstraintsFromJson(_, _, _, _)
BodyConstraintsFromJson(body, json_contexts, i, j) ==
    IF i > Len(json_contexts) THEN body
    ELSE IF j > Len(json_contexts[i].attributes)
    THEN BodyConstraintsFromJson(body, json_contexts, i + 1, 1)
    ELSE BodyConstraintsFromJson(
             BodyAppendConstraintJson(body, json_contexts[i].attributes[j],
                                      json_contexts[i].name),
             json_contexts, i, j + 1)

PolicyAppendBodyJson(json_body) ==
    BodyConstraintsFromJson(
        PolicyAppendBody(json_body.namespace, json_body.name, json_body.bodyType,
                         json_body.arguments, FALSE),
        json_body.contexts, 1, 1)

PolicyFromJson(json_policy) ==
    [bundles |-> [i \in DOMAIN json_policy.bundles |->
                      PolicyAppendBundleJson(json_policy.bundles[i])],
     bodies |-> [i \in DOMAIN json_policy.bodies |->
                     PolicyAppendBodyJson(json_policy.bodies[i])]]

(***************************************************************************)
(* Validation of handles.                                                  *)
(***************************************************************************)
\* The text of the promise's first handle constraint when it is a scalar,
\* <<>> when the promise has no such handle.
PromiseGetHandle(promise) ==
    LET i == FirstConstraint(promise.conlist, "handle", "", 1)
    IN IF i # 0 /\ promise.conlist[i].rval.type = "scalar"
       THEN promise.conlist[i].rval.item
       ELSE <<>>

\* Whether the text holds a variable reference, $(...) or ${...}.
IsCf3VarString(str) ==
    \E i \in 1..Len(str) : \E j \in 1..Len(str) :
        /\ i + 1 < j
        /\ str[i] = "$"
        /\ \/ str[i + 1] = "(" /\ str[j] = ")"
           \/ str[i + 1] = "{" /\ str[j] = "}"

\* The places <<bpi, sti, ppi>> of the promises in the built-in sections, in
\* the order the loops of PolicyCheckDuplicateHandles() visit them.
RECURSIVE PromisePlaces(_, _, _, _)
PromisePlaces(p, bpi, sti, ppi) ==
    IF bpi > Len(p.bundles) THEN <<>>
    ELSE IF sti > Len(p.bundles[bpi].sections)
    THEN PromisePlaces(p, bpi + 1, 1, 1)
    ELSE IF ppi > Len(p.bundles[bpi].sections[sti].promises)
    THEN PromisePlaces(p, bpi, sti + 1, 1)
    ELSE <<<<bpi, sti, ppi>>>> \o PromisePlaces(p, bpi, sti, ppi + 1)

PromiseAt(p, place) == p.bundles[place[1]].sections[place[2]].promises[place[3]]

RECURSIVE CheckHandlesFrom(_, _, _, _, _)
\* The loops of PolicyCheckDuplicateHandles() from the n-th place on;
\* recorded maps a handle to the place of the promise recorded for it.
CheckHandlesFrom(p, places, n, recorded, errors) ==
    IF n > Len(places) THEN errors
    ELSE LET promise == PromiseAt(p, places[n])
             handle == PromiseGetHandle(promise)
         IN IF handle = <<>> \/ IsCf3VarString(handle)
            THEN CheckHandlesFrom(p, places, n + 1, recorded, errors)
            ELSE IF \E r \in recorded : r.handle = handle
            THEN LET other_promise ==
                         PromiseAt(p, (CHOOSE r \in recorded : r.handle = handle).place)
                 IN IF promise.classes = other_promise.classes
                    THEN CheckHandlesFrom(p, places, n + 1, recorded,
                             Append(errors, [promise |-> places[n], handle |-> handle]))
                    ELSE CheckHandlesFrom(p, places, n + 1, recorded, errors)
            ELSE CheckHandlesFrom(p, places, n + 1,
                     recorded \cup {[handle |-> handle, place |-> places[n]]}, errors)

\* The errors PolicyCheckDuplicateHandles() appends; it returns success when
\* it appends none.
PolicyCheckDuplicateHandles(p) == CheckHandlesFrom(p, PromisePlaces(p, 1, 1, 1), 1, {}, <<>>)

\* The pairs <<i, j>> of indices up to n in the order two nested loops from
\* 1 to n visit them.
IndexPairs(n) == [k \in 1..(n * n) |-> <<((k - 1) \div n) + 1, ((k - 1) % n) + 1>>]

SameDefinition(bp, bp2) == bp.type = bp2.type /\ bp.ns = bp2.ns /\ bp.name = bp2.name

\* The errors of the first loop of PolicyCheckPartial(): one for every bundle
\* bp and every other bundle bp2 of its type, namespace and name.
BundleRedefinitions(p) ==
    LET pairs == SelectSeq(IndexPairs(Len(p.bundles)),
                     LAMBDA ij : /\ ij[1] # ij[2]
                                 /\ SameDefinition(p.bundles[ij[1]], p.bundles[ij[2]]))
    IN [k \in DOMAIN pairs |->
           [type |-> "bundle", subject |-> pairs[k][1], message |-> "redefinition"]]

\* PolicyCheckBundle(): a reserved name is an error; the promises of the
\* sections are taken to pass PromiseCheck().
PolicyCheckBundle(p, i) ==
    IF p.bundles[i].name \in {"sys", "const", "mon", "edit", "match", "this"}
    THEN <<[type |-> "bundle", subject |-> i, message |-> "reserved name"]>>
    ELSE <<>>

RECURSIVE PolicyCheckBundles(_, _)
PolicyCheckBundles(p, i) ==
    IF i > Len(p.bundles) THEN <<>>
    ELSE PolicyCheckBundle(p, i) \o PolicyCheckBundles(p, i + 1)

\* A variant that reports the bodies of type "file" too.
EveryBodyRedefinition(p) ==
    LET pairs == SelectSeq(IndexPairs(Len(p.bodies)),
                     LAMBDA ij : /\ ij[1] # ij[2]
                                 /\ SameDefinition(p.bodies[ij[1]], p.bodies[ij[2]]))
    IN [k \in DOMAIN pairs |->
           [type |-> "body", subject |-> pairs[k][1], message |-> "redefinition"]]

\* The errors of the loop over the bodies: as for the bundles, but none for
\* a body of type "file".
BodyRedefinitions(p) ==
    LET pairs == SelectSeq(IndexPairs(Len(p.bodies)),
                     LAMBDA ij : /\ ij[1] # ij[2]
                                 /\ SameDefinition(p.bodies[ij[1]], p.bodies[ij[2]])
                                 /\ p.bodies[ij[1]].type # "file")
    IN [k \in DOMAIN pairs |->
           [type |-> "body", subject |-> pairs[k][1], message |-> "redefinition"]]

\* PolicyCheckBody(): a control body with arguments is an error; the
\* constraints are taken to pass ConstraintCheckType() and the body's own
\* check.
PolicyCheckBody(p, i) ==
    IF p.bodies[i].name = "control" /\ Len(p.bodies[i].args) > 0
    THEN <<[type |-> "body", subject |-> i, message |-> "control arguments"]>>
    ELSE <<>>

RECURSIVE PolicyCheckBodies(_, _)
PolicyCheckBodies(p, i) ==
    IF i > Len(p.bodies) THEN <<>>
    ELSE PolicyCheckBody(p, i) \o PolicyCheckBodies(p, i + 1)

\* The errors PolicyCheckPartial() appends, in the order of its loops.
PolicyCheckPartial(p) ==
    BundleRedefinitions(p) \o PolicyCheckBundles(p, 1)
    \o BodyRedefinitions(p) \o PolicyCheckBodies(p, 1)
    \o [k \in DOMAIN PolicyCheckDuplicateHandles(p) |->
           [type |-> "promise", subject |-> PolicyCheckDuplicateHandles(p)[k].promise,
            message |-> "duplicate handle"]]

(***************************************************************************)
(* The policies under check: one bundle whose promises are drawn from      *)
(* PromiseKinds, with or without a body.  They are built with the append   *)
(* operations, as the parser builds them.                                  *)
(***************************************************************************)
MaxPromises == 3

Handle(text) == [lval |-> "handle", rval |-> RvalScalar(text), references_body |-> FALSE]

PromiseKinds ==
    { [promise_type |-> "reports", classes |-> "any", promisee |-> NoPromisee,
       varclasses |-> <<>>, attributes |-> <<Handle(<<"h">>)>>],
      [promise_type |-> "reports", classes |-> "linux", promisee |-> NoPromisee,
       varclasses |-> <<>>, attributes |-> <<Handle(<<"h">>)>>],
      [promise_type |-> "reports", classes |-> "any", promisee |-> NoPromisee,
       varclasses |-> <<>>, attributes |-> <<Handle(<<"$", "(", "x", ")">>)>>],
      [promise_type |-> "files", classes |-> "any", promisee |-> RvalScalar("who"),
       varclasses |-> <<>>, attributes |-> <<[lval |-> "perms", rval |-> RvalScalar(<<"m">>),
                         references_body |-> TRUE]>>],
      [promise_type |-> "mytype", classes |-> "any", promisee |-> NoPromisee,
       varclasses |-> <<>>, attributes |-> <<Handle(<<"h">>)>>],
      [promise_type |-> "reports", classes |-> "any", promisee |-> NoPromisee,
       varclasses |-> <<>>, attributes |-> <<[lval |-> "if", rval |-> RvalScalar(<<"a">>),
                         references_body |-> FALSE]>>],
      [promise_type |-> "reports", classes |-> "any", promisee |-> NoPromisee,
       varclasses |-> <<>>, attributes |-> <<[lval |-> "comment", rval |-> RvalScalar(<<"'">>),
                         references_body |-> FALSE]>>],
      [promise_type |-> "vars", classes |-> "any", promisee |-> NoPromisee,
       varclasses |-> <<>>, attributes |-> <<[lval |-> "data",
                         rval |-> [type |-> "container",
                                   item |-> [type |-> "string", value |-> <<"d">>]],
                         references_body |-> FALSE]>>],
      [promise_type |-> "reports", classes |-> "any", promisee |-> NoPromisee,
       varclasses |-> <<"c">>, attributes |-> <<>>] }

RECURSIVE WithAttributes(_, _, _)
WithAttributes(promise, attributes, i) ==
    IF i > Len(attributes) THEN promise
    ELSE WithAttributes(
             PromiseAppendConstraint(promise, attributes[i].lval, attributes[i].rval,
                                     attributes[i].references_body),
             attributes, i + 1)

RECURSIVE WithPromises(_, _, _)
WithPromises(bundle, kinds, i) ==
    IF i > Len(kinds) THEN bundle
    ELSE WithPromises(
             WithPromise(BundleAppendSection(bundle, kinds[i].promise_type),
                         WithAttributes(
                             BundleSectionAppendPromise("p", kinds[i].promisee,
                                                        kinds[i].classes,
                                                        kinds[i].varclasses),
                             kinds[i].attributes, 1)),
             kinds, i + 1)

\* A body whose constraint refers to another body.
BodyKinds ==
    { BodyAppendConstraint(PolicyAppendBody("default", "m", "perms", <<>>, FALSE),
                           "acl", RvalScalar(<<"n">>), "any", TRUE),
      PolicyAppendBody("default", "service_method", "service_method", <<>>, FALSE) }

Policies ==
    { [bundles |-> <<WithPromises(PolicyAppendBundle("default", "main", "agent", <<>>),
                                  kinds, 1)>>,
       bodies |-> bodies] :
          kinds \in UNION { [1..n -> PromiseKinds] : n \in 1..MaxPromises },
          bodies \in {<<>>} \cup { <<body>> : body \in BodyKinds } }

\* Policies of several bundles without promises and several bodies without
\* constraints, some of them with the namespace, type and name of another.
MaxElements == 2

BundleHeads ==
    { <<"default", "agent", "main">>, <<"default", "common", "main">>,
      <<"ns", "agent", "main">>, <<"default", "agent", "run">> }

BodyHeads ==
    { <<"default", "perms", "m">>, <<"default", "file", "control">>,
      <<"ns", "perms", "m">>, <<"default", "perms", "n">>, <<"default", "acl", "m">> }

PartialPolicies ==
    { [bundles |-> [i \in DOMAIN bundles |->
                       PolicyAppendBundle(bundles[i][1], bundles[i][3], bundles[i][2], <<>>)],
       bodies |-> [i \in DOMAIN bodies |->
                      PolicyAppendBody(bodies[i][1], bodies[i][3], bodies[i][2], <<>>, FALSE)]] :
          bundles \in UNION { [1..n -> BundleHeads] : n \in 1..MaxElements },
          bodies \in UNION { [1..n -> BodyHeads] : n \in 0..MaxElements } }

NoJson == [bundles |-> <<>>, bodies |-> <<>>]

NoAppend == [lval |-> "", rval |-> RvalScalar(<<>>), before |-> <<>>]

NoSection == [promise_type |-> "", custom |-> FALSE, at |-> 0]

InitPolicy ==
    /\ pp = NoPromise
    /\ dry_run = FALSE
    /\ edcontext = [file_start |-> <<>>, num_edits |-> 0]
    /\ history = <<>>
    /\ sched = NoSchedule
    /\ changes = NoChanges
    /\ pkg = NoPackages
    /\ \E dom \in Policies \cup PartialPolicies :
           policy = [pc |-> "parsed", dom |-> dom, json |-> NoJson, back |-> PolicyNew,
                     errors |-> <<>>, last |-> NoAppend, section |-> NoSection]

\* The policy is serialized.
PolicyToJsonCall ==
    /\ policy.pc = "parsed"
    /\ policy' = [policy EXCEPT !.pc = "json", !.json = PolicyToJson(policy.dom)]
    /\ UNCHANGED <<pp, dry_run, edcontext, history, sched, changes, pkg>>

\* The serialized policy is read back.
PolicyFromJsonCall ==
    /\ policy.pc = "json"
    /\ policy' = [policy EXCEPT !.pc = "back", !.back = PolicyFromJson(policy.json)]
    /\ UNCHANGED <<pp, dry_run, edcontext, history, sched, changes, pkg>>

\* The policy is validated.
PolicyCheckDuplicateHandlesCall ==
    /\ policy.pc = "parsed"
    /\ policy' = [policy EXCEPT !.pc = "checked",
                                !.errors = PolicyCheckDuplicateHandles(policy.dom)]
    /\ UNCHANGED <<pp, dry_run, edcontext, history, sched, changes, pkg>>

\* A partial policy is validated.
PolicyCheckPartialCall ==
    /\ policy.pc = "parsed"
    /\ policy' = [policy EXCEPT !.pc = "partial",
                                !.errors = PolicyCheckPartial(policy.dom)]
    /\ UNCHANGED <<pp, dry_run, edcontext, history, sched, changes, pkg>>

AppendedRvals == {RvalScalar(<<"b">>), FnCallNew("f", <<>>)}

\* The left-values of the constraints appended: a first append may meet a
\* class expression of the promise, a second one replaces.
AppendedLvals(pc) ==
    IF pc = "parsed" THEN {"if", "ifvarclass", "comment"} ELSE {"comment", "handle"}

\* A constraint is appended to the first promise of the first built-in
\* section, and then a second one.
PromiseAppendConstraintCall ==
    /\ policy.pc \in {"parsed", "appended"}
    /\ policy.dom.bundles[1].sections # <<>>
    /\ \E lval \in AppendedLvals(policy.pc) : \E rval \in AppendedRvals :
           policy' = [policy EXCEPT
               !.pc = IF policy.pc = "parsed" THEN "appended" ELSE "appended again",
               !.last = [lval |-> lval, rval |-> rval,
                         before |-> policy.dom.bundles[1].sections[1].promises[1].conlist],
               !.dom.bundles[1].sections[1].promises[1] =
                   PromiseAppendConstraint(@, lval, rval, FALSE)]
    /\ UNCHANGED <<pp, dry_run, edcontext, history, sched, changes, pkg>>

\* The promise types of the sections appended to a parsed bundle.
AppendedSections == {"reports", "files", "classes", "mytype", "othertype"}

\* A section is appended to the first bundle.
BundleAppendSectionCall ==
    /\ policy.pc = "parsed"
    /\ \E promise_type \in AppendedSections :
           LET where == BundleAppendSection(policy.dom.bundles[1], promise_type)
           IN policy' = [policy EXCEPT
                  !.pc = "section",
                  !.section = [promise_type |-> promise_type, custom |-> where.custom,
                               at |-> where.at],
                  !.back = policy.dom,
                  !.dom.bundles[1] = where.bundle]
    /\ UNCHANGED <<pp, dry_run, edcontext, history, sched, changes, pkg>>

NextPolicy ==
    \/ BundleAppendSectionCall
    \/ PolicyToJsonCall
    \/ PolicyFromJsonCall
    \/ PolicyCheckDuplicateHandlesCall
    \/ PolicyCheckPartialCall
    \/ PromiseAppendConstraintCall

SpecPolicy == InitPolicy /\ [][NextPolicy]_vars

(***************************************************************************)
(* The provider's responses and the package caches (package_module.c).     *)
(*                                                                         *)
(* A response is a sequence of lines, a line a key and a value.  A         *)
(* database is a set of <<key, value>> pairs with one pair for a key; a    *)
(* key is the sequence of the fragments it is formatted from.              *)
(***************************************************************************)
MaxReplyLines == 4

\* A null pointer to a string.
NullString == "(null)"

ReplyLines ==
    { [key |-> "Name", value |-> "a"], [key |-> "Name", value |-> "b"],
      [key |-> "Version", value |-> "1"], [key |-> "Architecture", value |-> "x"],
      [key |-> "PackageType", value |-> "repo"], [key |-> "Foo", value |-> "z"] }

Replies == UNION { [1..n -> ReplyLines] : n \in 0..MaxReplyLines }

\* Whether the line starts with the key and "=".
StringStartsWith(line, key) == line.key = key

HasKeyDB(db, key) == \E p \in db : p[1] = key

ReadDB(db, key) == (CHOOSE p \in db : p[1] = key)[2]

WriteDB(db, key, value) == {p \in db : p[1] # key} \cup {<<key, value>>}

\* A variant that records the name of an installed package only.
WritePackageNameToDB(db_installed, name, ver, arch, type) ==
    WriteDB(db_installed, <<"N<", name, ">">>, "1")

\* The database after WritePackageDataToDB().
WritePackageDataToDB(db_installed, name, ver, arch, type) ==
    IF type = "installed"
    THEN WriteDB(WriteDB(WriteDB(WriteDB(db_installed,
             <<"N<", name, ">">>, "1"),
             <<"N<", name, ">V<", ver, ">">>, "1"),
             <<"N<", name, ">A<", arch, ">">>, "1"),
             <<"N<", name, ">V<", ver, ">A<", arch, ">">>, "1")
    ELSE IF HasKeyDB(db_installed, <<"N<", name, ">">>)
    THEN WriteDB(db_installed, <<"N<", name, ">">>,
                 Append(ReadDB(db_installed, <<"N<", name, ">">>), <<ver, arch>>))
    ELSE WriteDB(db_installed, <<"N<", name, ">">>, <<<<ver, arch>>>>)

RECURSIVE UpdatePackagesDBFrom(_, _, _, _, _, _, _, _)
\* The loop of UpdatePackagesDB() from the i-th line on and what follows it;
\* package_data holds NullString for what has not been read.
UpdatePackagesDBFrom(db_cached, data, i, package_data, inventory_data, have_error, log, type) ==
    IF i > Len(data)
    THEN LET complete == \A n \in 1..3 : package_data[n] # NullString
             stored == IF complete
                       THEN WritePackageDataToDB(db_cached, package_data[1],
                                                 package_data[2], package_data[3], type)
                       ELSE db_cached
             inventory_list == IF complete THEN Append(inventory_data, package_data)
                               ELSE inventory_data
         IN [ret |-> IF have_error THEN -1 ELSE 0,
             db |-> WriteDB(stored, <<"<inventory>">>, inventory_list),
             log |-> IF ~complete /\ \E n \in 1..3 : package_data[n] # NullString
                     THEN Append(log, [level |-> "verbose", line |-> "Malformed response"])
                     ELSE log]
    ELSE LET line == data[i]
         IN CASE StringStartsWith(line, "Name") ->
                    IF package_data[1] # NullString
                    THEN IF package_data[2] # NullString /\ package_data[3] # NullString
                         THEN UpdatePackagesDBFrom(
                                  WritePackageDataToDB(db_cached, package_data[1],
                                      package_data[2], package_data[3], type),
                                  data, i + 1, <<line.value, NullString, NullString>>,
                                  Append(inventory_data, package_data), have_error,
                                  log, type)
                         ELSE UpdatePackagesDBFrom(db_cached, data, i + 1,
                                  <<line.value, NullString, NullString>>, inventory_data,
                                  have_error,
                                  Append(log, [level |-> "verbose",
                                               line |-> "Malformed response"]),
                                  type)
                    ELSE UpdatePackagesDBFrom(db_cached, data, i + 1,
                             <<line.value, package_data[2], package_data[3]>>,
                             inventory_data, have_error, log, type)
              [] StringStartsWith(line, "Version") ->
                    UpdatePackagesDBFrom(db_cached, data, i + 1,
                        <<package_data[1], line.value, package_data[3]>>,
                        inventory_data, have_error, log, type)
              [] StringStartsWith(line, "Architecture") ->
                    UpdatePackagesDBFrom(db_cached, data, i + 1,
                        <<package_data[1], package_data[2], line.value>>,
                        inventory_data, have_error, log, type)
              [] StringStartsWith(line, "Error") \/ StringStartsWith(line, "ErrorMessage") ->
                    UpdatePackagesDBFrom(db_cached, data, i + 1, package_data,
                        inventory_data, TRUE,
                        Append(log, [level |-> "error", line |-> line]), type)
              [] OTHER ->
                    UpdatePackagesDBFrom(db_cached, data, i + 1, package_data,
                        inventory_data, TRUE,
                        Append(log, [level |-> "error", line |-> line]), type)

\* A variant that writes the entries into the database as it is.
UpdatePackagesDBUncleaned(db, open, data, type) ==
    IF open
    THEN UpdatePackagesDBFrom(db, data, 1, <<NullString, NullString, NullString>>, <<>>, FALSE, <<>>, type)
    ELSE [ret |-> -1, db |-> db, log |-> <<>>]

\* UpdatePackagesDB() on the database of the type: its return value, the
\* database after it and what it logs.  open is whether OpenSubDB succeeds.
UpdatePackagesDB(db, open, data, type) ==
    IF open
    THEN UpdatePackagesDBFrom({}, data, 1, <<NullString, NullString, NullString>>, <<>>, FALSE, <<>>, type)
    ELSE [ret |-> -1, db |-> db, log |-> <<>>]

\* UpdateCache() with the provider's answer: communicated is whether
\* PackageWrapperCommunicate() returned 0, response what it read.
UpdateCacheFrom(db, open, communicated, response, type) ==
    IF ~communicated
    THEN [ret |-> FALSE, db |-> db, log |-> <<>>]
    ELSE [ret |-> UpdatePackagesDB(db, open, response, type).ret = 0,
          db |-> UpdatePackagesDB(db, open, response, type).db,
          log |-> UpdatePackagesDB(db, open, response, type).log]

\* The part of IsPackageInCache() that reads the database.
IsPackageInCacheKey(db_cached, open, name, ver, arch) ==
    LET version == IF ver = "latest" THEN NoVersion ELSE ver
        key == CASE version # NoVersion /\ arch # NoArch ->
                        <<"N<", name, ">V<", version, ">A<", arch, ">">>
                 [] version # NoVersion /\ arch = NoArch ->
                        <<"N<", name, ">V<", version, ">">>
                 [] version = NoVersion /\ arch # NoArch ->
                        <<"N<", name, ">A<", arch, ">">>
                 [] OTHER -> <<"N<", name, ">">>
    IN IF ~open THEN -1
       ELSE IF HasKeyDB(db_cached, key)
       THEN IF ReadDB(db_cached, key) = "1" THEN 1 ELSE -1
       ELSE 0

NoPackageInfo ==
    [type |-> "none", name |-> NullString, version |-> NullString, arch |-> NullString]

RECURSIVE ParseAndCheckPackageDataReplyFrom(_, _, _, _)
\* The loop of ParseAndCheckPackageDataReply() from the i-th line on; the
\* result is the package data (found) or the null pointer, with what was
\* logged.
ParseAndCheckPackageDataReplyFrom(data, i, package_data, log) ==
    IF i > Len(data) THEN [found |-> TRUE, package_data |-> package_data, log |-> log]
    ELSE LET line == data[i]
         IN CASE StringStartsWith(line, "PackageType") ->
                    IF line.value \in {"file", "repo"}
                    THEN ParseAndCheckPackageDataReplyFrom(data, i + 1,
                             [package_data EXCEPT !.type = line.value], log)
                    ELSE [found |-> FALSE, package_data |-> NoPackageInfo,
                          log |-> Append(log, [level |-> "verbose", line |-> line])]
              [] StringStartsWith(line, "Name") ->
                    IF package_data.name # NullString
                    THEN [found |-> FALSE, package_data |-> NoPackageInfo,
                          log |-> Append(log, [level |-> "error", line |-> line])]
                    ELSE ParseAndCheckPackageDataReplyFrom(data, i + 1,
                             [package_data EXCEPT !.name = line.value], log)
              [] StringStartsWith(line, "Version") ->
                    IF package_data.version # NullString
                    THEN [found |-> FALSE, package_data |-> NoPackageInfo,
                          log |-> Append(log, [level |-> "error", line |-> line])]
                    ELSE ParseAndCheckPackageDataReplyFrom(data, i + 1,
                             [package_data EXCEPT !.version = line.value], log)
              [] StringStartsWith(line, "Architecture") ->
                    IF package_data.arch # NullString
                    THEN [found |-> FALSE, package_data |-> NoPackageInfo,
                          log |-> Append(log, [level |-> "error", line |-> line])]
                    ELSE ParseAndCheckPackageDataReplyFrom(data, i + 1,
                             [package_data EXCEPT !.arch = line.value], log)
              [] StringStartsWith(line, "Error") \/ StringStartsWith(line, "ErrorMessage") ->
                    ParseAndCheckPackageDataReplyFrom(data, i + 1, package_data,
                        Append(log, [level |-> "error", line |-> line]))
              [] OTHER ->
                    ParseAndCheckPackageDataReplyFrom(data, i + 1, package_data,
                        Append(log, [level |-> "verbose", line |-> line]))

ParseAndCheckPackageDataReply(data) ==
    ParseAndCheckPackageDataReplyFrom(data, 1, NoPackageInfo, <<>>)

\* GetPackageData() with the provider's answer.
GetPackageDataFrom(communicated, response) ==
    IF ~communicated \/ response = <<>>
    THEN [found |-> FALSE, package_data |-> NoPackageInfo, log |-> <<>>]
    ELSE LET parsed == ParseAndCheckPackageDataReply(response)
         IN IF parsed.found
               /\ (parsed.package_data.name = NullString
                   \/ parsed.package_data.type = "none")
            THEN [found |-> FALSE, package_data |-> NoPackageInfo, log |-> parsed.log]
            ELSE parsed

\* What ParseAndLogErrorMessage() logs.
ParseAndLogErrorMessage(data) ==
    [i \in DOMAIN data |->
        [level |-> IF StringStartsWith(data[i], "Error")
                      \/ StringStartsWith(data[i], "ErrorMessage")
                   THEN "error" ELSE "verbose",
         line |-> data[i]]]

\* RemovePackage() and InstallPackageGeneric() with the provider's answer to
\* remove, file-install or repo-install.
CommandResultFrom(communicated, error_message) ==
    [res |-> IF ~communicated \/ error_message # <<>> THEN FAIL ELSE CHANGE,
     log |-> ParseAndLogErrorMessage(error_message)]

(***************************************************************************)
(* The agent talking to a provider.  The provider answers every request of *)
(* a behaviour with the same response.                                     *)
(***************************************************************************)
UpdateTypes == {"installed", "updates", "local_updates"}

NoExchange ==
    [op |-> "none", type |-> "installed", communicated |-> TRUE, ret |-> FALSE,
     res |-> NOOP, found |-> FALSE, package_data |-> NoPackageInfo,
     name |-> NullString, ver |-> NoVersion, arch |-> NoArch, is_in_cache |-> 0,
     log |-> <<>>]

InitCache ==
    /\ pp = NoPromise
    /\ dry_run = FALSE
    /\ edcontext = [file_start |-> <<>>, num_edits |-> 0]
    /\ history = <<>>
    /\ sched = NoSchedule
    /\ changes = NoChanges
    /\ policy = NoPolicy
    /\ \E response \in Replies, open \in BOOLEAN :
           pkg = [pc |-> "start", response |-> response, open |-> open,
                  installed |-> {}, updates |-> {}, stored |-> <<>>,
                  last |-> NoExchange]

\* The state after UpdateCache() of the type has got the answer.
Listed(p, type, communicated, updated) ==
    [p EXCEPT !.pc = "listed",
              !.installed = IF type = "installed" THEN updated.db ELSE @,
              !.updates = IF type = "installed" THEN @ ELSE updated.db,
              !.stored = IF type = "installed" /\ communicated /\ p.open
                         THEN p.response ELSE @,
              !.last = [NoExchange EXCEPT !.op = "list", !.type = type,
                                          !.communicated = communicated,
                                          !.ret = updated.ret, !.log = updated.log]]

\* UpdateCache(): the provider is asked for a list.
ListPackages ==
    /\ pkg.pc = "start"
    /\ \E type \in UpdateTypes, communicated \in BOOLEAN :
           pkg' = Listed(pkg, type, communicated,
                         UpdateCacheFrom(IF type = "installed" THEN pkg.installed
                                         ELSE pkg.updates,
                                         pkg.open, communicated, pkg.response, type))
    /\ UNCHANGED <<pp, dry_run, edcontext, history, sched, changes, policy>>

\* GetPackageData(): the provider is asked about a package.
AskPackageData ==
    /\ pkg.pc = "start"
    /\ \E communicated \in BOOLEAN :
           pkg' = [pkg EXCEPT
               !.pc = "asked",
               !.last = [NoExchange EXCEPT
                   !.op = "data", !.communicated = communicated,
                   !.found = GetPackageDataFrom(communicated, pkg.response).found,
                   !.package_data =
                       GetPackageDataFrom(communicated, pkg.response).package_data,
                   !.log = GetPackageDataFrom(communicated, pkg.response).log]]
    /\ UNCHANGED <<pp, dry_run, edcontext, history, sched, changes, policy>>

\* RemovePackage() or InstallPackageGeneric(): the provider is told to
\* remove or to install a package.
CommandProvider ==
    /\ pkg.pc = "start"
    /\ \E communicated \in BOOLEAN :
           pkg' = [pkg EXCEPT
               !.pc = "told",
               !.last = [NoExchange EXCEPT
                   !.op = "command", !.communicated = communicated,
                   !.res = CommandResultFrom(communicated, pkg.response).res,
                   !.log = CommandResultFrom(communicated, pkg.response).log]]
    /\ UNCHANGED <<pp, dry_run, edcontext, history, sched, changes, policy>>

\* The state after IsPackageInCache() with the cache as refreshed.
LookedUp(p, name, ver, arch, refreshed) ==
    [p EXCEPT !.pc = "looked",
              !.installed = refreshed.db,
              !.last = [NoExchange EXCEPT
                  !.op = "lookup", !.name = name, !.ver = ver, !.arch = arch,
                  !.is_in_cache =
                      IsPackageInCacheKey(refreshed.db, p.open, name, ver, arch)]]

\* IsPackageInCache(): with an evaluation context the cache is re-read first
\* when its lock is granted.
LookUpPackage ==
    /\ pkg.pc = "listed"
    /\ pkg.last.type = "installed"
    /\ \E name \in {"a", "b"}, ver \in {"1", "latest", NoVersion}, arch \in {"x", NoArch},
          ctx \in BOOLEAN, refresh \in BOOLEAN, communicated \in BOOLEAN :
           pkg' = LookedUp(pkg, name, ver, arch,
                           IF ctx /\ refresh
                           THEN UpdateCacheFrom(pkg.installed, pkg.open, communicated,
                                                pkg.response, "installed")
                           ELSE [ret |-> TRUE, db |-> pkg.installed, log |-> <<>>])
    /\ UNCHANGED <<pp, dry_run, edcontext, history, sched, changes, policy>>

NextCache ==
    \/ ListPackages
    \/ AskPackageData
    \/ CommandProvider
    \/ LookUpPackage

SpecCache == InitCache /\ [][NextCache]_vars

(***************************************************************************)
(* Packages promises kept against a provider that has packages installed.  *)
(*                                                                         *)
(* The provider answers list-installed with the packages it has, and a     *)
(* command it obeys changes what it has.  What the handlers read from the  *)
(* installed cache is what the cache holds.                                *)
(***************************************************************************)
PackageEntries == <<<<"a", "1", "x">>, <<"a", "1", "y">>>>

\* The provider's answer to list-installed when it has the packages in has.
RECURSIVE ListInstalledReply(_, _)
ListInstalledReply(has, i) ==
    IF i > Len(PackageEntries) THEN <<>>
    ELSE IF PackageEntries[i] \in has
    THEN <<[key |-> "Name", value |-> PackageEntries[i][1]],
           [key |-> "Version", value |-> PackageEntries[i][2]],
           [key |-> "Architecture", value |-> PackageEntries[i][3]]>>
         \o ListInstalledReply(has, i + 1)
    ELSE ListInstalledReply(has, i + 1)

\* Whether a package the provider has is the one a promise names.
Promised(entry, p) ==
    /\ p.version \in {NoVersion, "latest", entry[2]}
    /\ p.arch \in {NoArch, entry[3]}

\* What the provider has after it obeyed the command for the promise.
AfterCommand(has, p) ==
    IF p.policy = "absent"
    THEN {entry \in has : ~Promised(entry, p)}
    ELSE has \cup {<<"a", "1", IF p.arch = NoArch THEN "x" ELSE p.arch>>}

\* The installed cache after UpdateCache() asked a provider that has the
\* packages in has.
Refreshed(db, communicated, has) ==
    UpdateCacheFrom(db, TRUE, communicated, ListInstalledReply(has, 1), "installed").db

ProviderBehaviours ==
    [type : {"none", "repo", "file"}, refresh : BOOLEAN, list_ok : BOOLEAN,
     command_ok : BOOLEAN, obeys : BOOLEAN]

\* The answers the handlers get in one run: b is how the provider behaves,
\* db the installed cache and has what the provider has when the run starts.
RepliesOf(b, db, has, p) ==
    LET before == IF b.refresh THEN Refreshed(db, b.list_ok, has) ELSE db
        after == Refreshed(before, b.list_ok,
                           IF b.obeys THEN AfterCommand(has, p) ELSE has)
    IN [api_ok |-> TRUE,
        data |-> [type |-> b.type, match |-> TRUE],
        in_cache |-> IsPackageInCacheKey(before, TRUE, "a", p.version, p.arch),
        refresh |-> b.refresh,
        list_ok |-> b.list_ok,
        latest_versions |-> <<>>,
        update_in_cache |-> [arch \in Archs |-> 0],
        command_ok |-> b.command_ok,
        installed |-> [arch \in Archs |->
                          IsPackageInCacheKey(after, TRUE, "a", p.version, p.arch)]]

Commands == {"remove", "repo-install", "file-install"}

NoRun == [promise |-> NoPackagePromise, type |-> "none", res |-> NOOP, sent |-> {}]

InitInstall ==
    /\ pp = NoPromise
    /\ dry_run \in BOOLEAN
    /\ edcontext = [file_start |-> <<>>, num_edits |-> 0]
    /\ history = <<>>
    /\ sched = NoSchedule
    /\ changes = NoChanges
    /\ policy = NoPolicy
    /\ \E has \in SUBSET Range(PackageEntries) :
           pkg = [pc |-> "first", has |-> has, installed |-> {},
                  first |-> NoRun, last |-> NoRun]

\* The state after a run in which the handler returned kept; a behaviour has
\* two runs.
Ran(p, b, kept) ==
    LET told == kept.sent \cap Commands # {}
        before == IF b.refresh /\ "list-installed" \in kept.sent
                  THEN Refreshed(pkg.installed, b.list_ok, pkg.has)
                  ELSE pkg.installed
        has == IF told /\ b.obeys THEN AfterCommand(pkg.has, p) ELSE pkg.has
    IN pkg' = [pkg EXCEPT
           !.pc = IF pkg.pc = "first" THEN "second" ELSE "done",
           !.has = has,
           !.installed = IF told /\ b.command_ok
                         THEN Refreshed(before, b.list_ok, has)
                         ELSE before,
           !.first = pkg.last,
           !.last = [promise |-> p, type |-> b.type, res |-> kept.res,
                     sent |-> kept.sent]]

\* The agent keeps a packages promise for the package "a".
KeepPresentPromise ==
    /\ pkg.pc \in {"first", "second"}
    /\ \E p \in PackagePromises, b \in ProviderBehaviours :
           /\ p.policy = "present"
           /\ Ran(p, b,
                  HandlePresentPromiseAction(dry_run,
                      RepliesOf(b, pkg.installed, pkg.has, p), p))
    /\ UNCHANGED <<pp, dry_run, edcontext, history, sched, changes, policy>>

KeepAbsentPromise ==
    /\ pkg.pc \in {"first", "second"}
    /\ \E p \in PackagePromises, b \in ProviderBehaviours :
           /\ p.policy = "absent"
           /\ Ran(p, b,
                  HandleAbsentPromiseAction(dry_run,
                      RepliesOf(b, pkg.installed, pkg.has, p), p))
    /\ UNCHANGED <<pp, dry_run, edcontext, history, sched, changes, policy>>

NextInstall ==
    \/ KeepPresentPromise
    \/ KeepAbsentPromise

SpecInstall == InitInstall /\ [][NextInstall]_vars

(***************************************************************************)
(* Properties of the edit operations.                                      *)
(***************************************************************************)
\* The application i of pp acquired its lock and made its changes.
Effective(i) ==
    i \in DOMAIN history /\ history[i].lock /\ ~dry_run

\* The region that an operation on list selects: SelectRegion, or the whole
\* list when the promise has no select_region.
RegionOn(list) ==
    IF ~pp.a.haveregion THEN [ok |-> TRUE, begin_ptr |-> Head0(list), end_ptr |-> NULL]
    ELSE SelectRegion(list, pp.a)

\* C1: running the same insert_lines promise twice yields identical output
\* after the first run: the second application, to the line list that the
\* first application produced, inserts nothing.
C1_InsertIdempotent ==
    \A i \in DOMAIN history :
        ( /\ pp.type = "insert_lines"
          /\ i > 1
          /\ Effective(i - 1) /\ Effective(i)
          /\ history[i - 1].result \in {NOOP, CHANGE} )
        => history[i].after = history[i].before

ValueMatchesPattern == BlockTextMatch(pp.promiser[1], pp.a.replace_value).found

\* A line of the region selected on the first line list matches the pattern.
MatchingLineInRegion ==
    LET list == history[1].before
        region == RegionOn(list)
    IN /\ region.ok /\ region.begin_ptr # NULL
       /\ \E ip \in region.begin_ptr ..
                    (IF region.end_ptr = NULL THEN Len(list) ELSE region.end_ptr - 1) :
              BlockTextMatch(pp.promiser[1], list[ip]).found

AnchoredAtBothEnds ==
    pp.promiser[1][1] = "^" /\ pp.promiser[1][Len(pp.promiser[1])] = "$"

LeftInRegion(i) ==
    LET list == history[i].before
        region == IF ~pp.a.haveregion
                  THEN [ok |-> TRUE, begin_ptr |-> NULL, end_ptr |-> NULL]
                  ELSE SelectRegion(list, pp.a)
        first == IF region.begin_ptr = NULL THEN 1
                 ELSE IF pp.a.include_start THEN region.begin_ptr
                 ELSE region.begin_ptr + 1
        last == IF region.end_ptr = NULL THEN Len(list)
                ELSE IF pp.a.include_end THEN region.end_ptr
                ELSE region.end_ptr - 1
        deleted == Len(list) - Len(history[i].after)
    IN { history[i].after[k] : k \in first .. (last - deleted) }

DeletionApplied(i) ==
    /\ pp.type = "delete_lines"
    /\ Effective(i)
    /\ history[i].result \in {NOOP, CHANGE}

FieldHolds(field) ==
    LET a == pp.a
        sub == RlistFromSplitString(field, a.value_separator)
    IN IF a.value_separator = ""
       THEN IF a.column_operation = "delete" THEN field = <<>>
            ELSE field = a.column_value
       ELSE CASE a.column_operation = "delete" -> ~RlistKeyIn(sub, a.column_value)
              [] a.column_operation = "set" -> sub = <<a.column_value>>
              [] OTHER -> RlistKeyIn(sub, a.column_value)

\* The line list complies with the field_edits promise pp: some line of the
\* region matches the promiser, and the selected field of every such line
\* holds the promised value.
Complies(list) ==
    LET region == RegionOn(list)
        last == IF region.end_ptr = NULL THEN Len(list) ELSE region.end_ptr - 1
        matched == IF region.ok /\ region.begin_ptr # NULL
                   THEN {ip \in region.begin_ptr .. last :
                            FullTextMatch(pp.promiser[1], list[ip])}
                   ELSE {}
    IN /\ matched # {}
       /\ \A ip \in matched :
              LET columns == RlistFromSplitRegex(list[ip], pp.a.column_separator,
                                                 pp.a.blanks_ok)
              IN /\ Len(columns) >= pp.a.select_column
                 /\ FieldHolds(columns[pp.a.select_column])

\* C5: re-running a field_edits promise on a file that already complies with
\* it yields no changes: no edit is counted and the outcome is not CHANGE.
C5_ColumnEditIdempotent ==
    \A i \in DOMAIN history :
        (pp.type = "field_edits" /\ Effective(i) /\ Complies(history[i].before))
        => history[i].edits = 0 /\ history[i].result # CHANGE

\* C6: for every edit operation that selects a region, if select_end is
\* given, no line after the start matches it and select_end_match_eof is
\* false, the operation fails and makes no edit to the line list.
C6_UnmatchedEndFails ==
    \A i \in DOMAIN history :
        ( /\ history[i].lock
          /\ pp.a.haveregion /\ pp.a.select_end # <<>> /\ ~pp.a.select_end_match_eof
          /\ SelectRegion(history[i].before, pp.a).ok
          /\ SelectRegion(history[i].before, pp.a).end_ptr = NULL )
        => /\ history[i].result \in {FAIL, INTERRUPTED}
           /\ history[i].after = history[i].before

C10_EvaluatedUnderFileLock ==
    /\ \A p \in DOMAIN sched.passes :
           sched.passes[p].evals > 0 => sched.passes[p].held
    /\ ~sched.acquired
       => /\ \A p \in DOMAIN sched.passes : sched.passes[p].evals = 0
          /\ edcontext.file_start = sched.first
          /\ edcontext.num_edits = 0

\* The evaluation of a bundle with promises ended without the lock, which
\* another process holds.
C10_Witness ==
    /\ sched.pc = "done" /\ ~sched.acquired /\ ~sched.ret
    /\ sched.holder = "other"
    /\ PassOrder(sched.bp) # <<>>

(***************************************************************************)
(* Properties of the change tracker.                                       *)
(***************************************************************************)
\* C7: in dry-run mode no side effect is applied: the edited file on disk
\* and every record of the change-tracking database are after an operation
\* of the agent what they were before it.
C7_DryRunChangesNothing ==
    dry_run => /\ changes.db = changes.snap.db
               /\ changes.log = changes.snap.log
               /\ changes.edfile = changes.snap.edfile

\* C8: the outcome returned for a promise is the worst of the outcomes of
\* its sub-operations: when a sub-operation of a packages promise yields
\* FAIL or INTERRUPTED, the outcome of the promise is FAIL or INTERRUPTED.
C8_WorstOfSubOperations ==
    pkg.pc = "kept"
    => \A s \in pkg.subs : s \in {FAIL, INTERRUPTED} => pkg.result \in {FAIL, INTERRUPTED}

\* C9: every request the provider receives, from a present promise, an
\* absent promise or a cache refresh, was sent while this agent held the
\* global package lock; a promise skipped for want of the lock sent none.
C9_ProviderCalledUnderGlobalLock ==
    /\ \A r \in pkg.requests : r.held
    /\ pkg.holder # "agent"
    /\ (pkg.pc = "kept" /\ pkg.result = SKIPPED)
       => \A r \in pkg.requests : r.by = "cache"

\* The lock is held by another process although the provider has served a
\* cache refresh and a promise of this agent before.
C9_Witness ==
    /\ pkg.holder = "other"
    /\ \E r \in pkg.requests : r.by = "cache" /\ r.cmd = "list-installed"
    /\ \E r \in pkg.requests : r.by = "present" /\ r.cmd = "repo-install"
    /\ \E r \in pkg.requests : r.by = "cache" /\ r.cmd = "list-updates"

(***************************************************************************)
(* Properties of single calls of the change tracker.                       *)
(***************************************************************************)
\* The last call was FileChangesCheckAndUpdateHash() on a path whose stored
\* digest differs from the new one.
HashDiffered ==
    /\ changes.last.op = "hash"
    /\ changes.last.open
    /\ changes.last.prior # 0
    /\ changes.last.prior # changes.disk[changes.last.file]

\* C11: when CheckAndUpdateHash finds a stored digest that differs from the
\* new digest it returns "changed", and the stored record is overwritten
\* with the new digest if and only if update is set; with update clear the
\* stored digest is left as it was.
C11_ChangedOverwritesIffUpdate ==
    HashDiffered
    => /\ changes.last.ret
       /\ changes.last.update
          <=> changes.db.hash[changes.last.file] = changes.disk[changes.last.file]
       /\ ~changes.last.update
          => changes.db.hash[changes.last.file] = changes.last.prior

\* C11 as the code has it: when CheckAndUpdateHash finds a stored digest
\* that differs from the new digest it returns "changed", and the stored
\* record is overwritten with the new digest if and only if update is set
\* and the agent is not in dry-run mode; otherwise the stored digest is
\* left as it was.
C11_ChangedOverwritesIffUpdateAndNotDryRun ==
    HashDiffered
    => /\ changes.last.ret
       /\ (changes.last.update /\ ~dry_run)
          <=> changes.db.hash[changes.last.file] = changes.disk[changes.last.file]
       /\ ~(changes.last.update /\ ~dry_run)
          => changes.db.hash[changes.last.file] = changes.last.prior

\* A differing digest was overwritten under update, outside dry-run.
C11_Witness ==
    /\ HashDiffered
    /\ changes.last.update
    /\ ~dry_run
    /\ changes.db.hash[changes.last.file] = changes.disk[changes.last.file]

\* The last call was FileChangesCheckAndUpdateStats() with the database
\* open.
StatsCalled == changes.last.op = "stats" /\ changes.last.open

\* C12: CheckAndUpdateStats writes a stat record only under update: with
\* update clear the record of the path is after the call what it was before
\* it, whether there was no record, an equal record or a differing record.
C12_StatsWrittenOnlyUnderUpdate ==
    (StatsCalled /\ ~changes.last.update)
    => changes.db.stat[changes.last.file] = changes.last.prior

\* C12 as the code has it: with update clear an existing record of the path,
\* equal or differing, is left as it was; a path without a record gets its
\* first record whatever update says, unless the agent is in dry-run mode.
C12_StatsOverwrittenOnlyUnderUpdate ==
    /\ (StatsCalled /\ ~changes.last.update /\ changes.last.prior # 0)
       => changes.db.stat[changes.last.file] = changes.last.prior
    /\ (StatsCalled /\ changes.last.prior = 0 /\ ~dry_run)
       => changes.db.stat[changes.last.file] = changes.disk[changes.last.file]

\* A differing record was left alone because update was clear, outside
\* dry-run.
C12_Witness ==
    /\ StatsCalled
    /\ ~changes.last.update
    /\ ~dry_run
    /\ changes.last.prior # 0
    /\ changes.last.prior # changes.disk[changes.last.file]
    /\ changes.db.stat[changes.last.file] = changes.last.prior

\* C13: for every entry that is in the stored directory listing but not on
\* disk, CheckAndUpdateDirectory erases all traces of it from the database:
\* after the call its hash record, its stat record and its entry in the
\* stored directory listing are gone.
C13_RemovedFileLeavesNoTrace ==
    (changes.last.op = "directory" /\ changes.last.open)
    => \A f \in changes.last.gone :
           /\ changes.db.hash[f] = 0
           /\ changes.db.stat[f] = 0
           /\ f \notin Range(GetDirectoryListFromDatabase(changes.db))

\* C14: if the change log file is writable by the group or by others, the
\* writer of the change log refuses to log: no line is appended to the file.
C14_WritableLogRefused ==
    (changes.last.op = "log" /\ changes.writable)
    => /\ changes.last.lines = 0
       /\ ~changes.last.ret
       /\ changes.log = {}

(***************************************************************************)
(* Properties of the policy DOM.                                           *)
(***************************************************************************)
\* C15: for every policy P, PolicyFromJson(PolicyToJson(P)) equals P: the
\* same bundles, bodies, sections (built-in and custom), promises (promiser,
\* promisee, class guard) and constraints (left-value, right-value of any
\* kind, class guard), in the same order.
C15_RoundTrip ==
    policy.pc = "back" => policy.back = policy.dom

\* C16: round-tripping preserves body references: every constraint of a
\* promise or of a body that refers to a body is restored by PolicyFromJson
\* with references_body true.
C16_BodyReferencesPreserved ==
    policy.pc = "back"
    => /\ PromisePlaces(policy.back, 1, 1, 1) = PromisePlaces(policy.dom, 1, 1, 1)
       /\ \A n \in 1..Len(PromisePlaces(policy.dom, 1, 1, 1)) :
              LET place == PromisePlaces(policy.dom, 1, 1, 1)[n]
              IN \A k \in 1..Len(PromiseAt(policy.dom, place).conlist) :
                     PromiseAt(policy.dom, place).conlist[k].references_body
                     => /\ k <= Len(PromiseAt(policy.back, place).conlist)
                        /\ PromiseAt(policy.back, place).conlist[k].references_body
       /\ \A i \in 1..Len(policy.dom.bodies) :
              \A k \in 1..Len(policy.dom.bodies[i].conlist) :
                  policy.dom.bodies[i].conlist[k].references_body
                  => /\ k <= Len(policy.back.bodies[i].conlist)
                     /\ policy.back.bodies[i].conlist[k].references_body

\* C17: validation reports a duplicate-handle error for every two promises
\* that share a handle and have string-identical class guards, whatever
\* other promises with that handle precede them; handles with unexpanded
\* variable references are never reported.
C17_EveryDuplicateHandleReported ==
    policy.pc = "checked"
    => LET places == PromisePlaces(policy.dom, 1, 1, 1)
       IN /\ \A a \in 1..Len(places) : \A b \in 1..Len(places) :
                 ( /\ a < b
                   /\ PromiseGetHandle(PromiseAt(policy.dom, places[a])) # <<>>
                   /\ ~IsCf3VarString(PromiseGetHandle(PromiseAt(policy.dom, places[a])))
                   /\ PromiseGetHandle(PromiseAt(policy.dom, places[a]))
                        = PromiseGetHandle(PromiseAt(policy.dom, places[b]))
                   /\ PromiseAt(policy.dom, places[a]).classes
                        = PromiseAt(policy.dom, places[b]).classes )
                 => \E e \in 1..Len(policy.errors) :
                        policy.errors[e].promise = places[b]
          /\ \A e \in 1..Len(policy.errors) : ~IsCf3VarString(policy.errors[e].handle)

\* The last operation appended a constraint with left-value if or
\* ifvarclass to a promise that had a scalar constraint with that left-value.
ContextMerged ==
    /\ policy.pc = "appended"
    /\ policy.last.lval \in {"if", "ifvarclass"}
    /\ FirstConstraint(policy.last.before, policy.last.lval, "", 1) # 0
    /\ policy.last.before[FirstConstraint(policy.last.before, policy.last.lval, "", 1)]
           .rval.type = "scalar"

\* The constraint with the appended left-value after the append, and the
\* text of the one before it.
MergedConstraint ==
    policy.dom.bundles[1].sections[1].promises[1]
        .conlist[FirstConstraint(policy.last.before, policy.last.lval, "", 1)]

OldContext ==
    policy.last.before[FirstConstraint(policy.last.before, policy.last.lval, "", 1)].rval.item

\* C18: appending a constraint with left-value if (or ifvarclass) to a
\* promise that has a scalar constraint with that left-value leaves a single
\* constraint; for a scalar its value is (old)&(new), for a function call
\* it is the function call and(old scalar, new fncall).
C18_MergedWithAmpersand ==
    ContextMerged
    => /\ Len(policy.dom.bundles[1].sections[1].promises[1].conlist)
              = Len(policy.last.before)
       /\ policy.last.rval.type = "scalar"
          => MergedConstraint.rval
               = RvalScalar(<<"(">> \o OldContext \o <<")", "&", "(">>
                            \o policy.last.rval.item \o <<")">>)
       /\ policy.last.rval.type = "fncall"
          => MergedConstraint.rval
               = FnCallNew("and", <<RvalScalar(OldContext), policy.last.rval>>)

\* C18 as the code has it: the two scalars are joined with the AND operator
\* ".", (old).(new).
C18_MergedWithDot ==
    ContextMerged
    => /\ Len(policy.dom.bundles[1].sections[1].promises[1].conlist)
              = Len(policy.last.before)
       /\ policy.last.rval.type = "scalar"
          => MergedConstraint.rval
               = RvalScalar(<<"(">> \o OldContext \o <<")", ".", "(">>
                            \o policy.last.rval.item \o <<")">>)
       /\ policy.last.rval.type = "fncall"
          => MergedConstraint.rval
               = FnCallNew("and", <<RvalScalar(OldContext), policy.last.rval>>)

\* A scalar was appended to a promise guarded by if "a".
C18_Witness ==
    /\ ContextMerged
    /\ policy.last.lval = "if"
    /\ policy.last.rval.type = "scalar"
    /\ MergedConstraint.rval.type = "scalar"
    /\ Len(MergedConstraint.rval.item) = 7

(***************************************************************************)
(* Properties of the provider protocol and of the installed cache.         *)
(***************************************************************************)
\* A line is unrecognised when no parser of responses knows its key.
Recognised(line) ==
    line.key \in {"PackageType", "Name", "Version", "Architecture", "Error", "ErrorMessage"}

\* The provider's response without its unrecognised lines.
RecognisedLines == SelectSeq(pkg.response, Recognised)

\* C19: an unrecognised key line in a provider response is logged and
\* ignored for every request verb: the parsed result, the error status of
\* the response and the outcome of the operation are what they are for the
\* response without the line.
C19_UnknownKeyIgnored ==
    /\ pkg.last.op = "list"
       => /\ pkg.last.ret
                = UpdateCacheFrom({}, pkg.open, pkg.last.communicated,
                                  RecognisedLines, pkg.last.type).ret
          /\ (IF pkg.last.type = "installed" THEN pkg.installed ELSE pkg.updates)
                = UpdateCacheFrom({}, pkg.open, pkg.last.communicated,
                                  RecognisedLines, pkg.last.type).db
    /\ pkg.last.op = "data"
       => /\ pkg.last.found
                = GetPackageDataFrom(pkg.last.communicated, RecognisedLines).found
          /\ pkg.last.package_data
                = GetPackageDataFrom(pkg.last.communicated, RecognisedLines).package_data
    /\ pkg.last.op = "command"
       => pkg.last.res = CommandResultFrom(pkg.last.communicated, RecognisedLines).res

\* The entries (name, ver, arch) of a response: a Name line followed by a
\* Version line and an Architecture line.
Entries(data) ==
    { <<data[i].value, data[i + 1].value, data[i + 2].value>> :
          i \in { j \in 1..(Len(data) - 2) :
                      /\ data[j].key = "Name"
                      /\ data[j + 1].key = "Version"
                      /\ data[j + 2].key = "Architecture" } }

LastPromiseInCache ==
    IsPackageInCacheKey(pkg.installed, TRUE, "a", pkg.last.promise.version,
                        pkg.last.promise.arch)

\* C21: after an absent promise whose remove was sent returned CHANGE,
\* IsPackageInCache for the same name, version and architecture is false;
\* if the package is still found in the refreshed cache the outcome is FAIL.
C21_RemovedPackageNotInCache ==
    (pkg.last.promise.policy = "absent" /\ "remove" \in pkg.last.sent)
    => /\ pkg.last.res = CHANGE => LastPromiseInCache = 0
       /\ LastPromiseInCache = 1 => pkg.last.res = FAIL

\* A package that was in the cache was removed and is no longer found.
C21_Witness ==
    /\ pkg.last.promise.policy = "absent"
    /\ "remove" \in pkg.last.sent
    /\ pkg.last.res = CHANGE
    /\ LastPromiseInCache = 0
    /\ pkg.first.res = CHANGE
    /\ pkg.first.promise.policy = "present"

\* The last run kept a present promise for which the provider reported a
\* repository package.
RepoPromiseKept ==
    pkg.last.promise.policy = "present" /\ pkg.last.type = "repo"

PromisedLinesPresent ==
    LET list == history[1].before
        region == RegionOn(list)
        ctx == [dry_run |-> dry_run, lock |-> TRUE, ub |-> FALSE]
    IN /\ region.ok
       /\ \A k \in 1..Len(pp.promiser) : IsItemInRegion(ctx, list, pp.promiser[k], region.begin_ptr, region.end_ptr, pp.a.insert_match)

SectionRank(type) ==
    CASE type = "vars" -> 1
      [] type = "classes" -> 2
      [] type = "delete_lines" -> 3
      [] type = "field_edits" -> 4
      [] type = "insert_lines" -> 5
      [] type = "replace_patterns" -> 6
      [] type = "reports" -> 7

\* A promise is evaluated after another promise of the same pass.
EvaluatedNextInPass ==
    /\ sched.pc = "run"
    /\ sched.next > 1
    /\ sched'.pass = sched.pass
    /\ sched'.next = sched.next + 1

\* C24: in every pass the sections are evaluated in the fixed order vars,
\* classes, delete_lines, field_edits, insert_lines, replace_patterns,
\* reports: a promise evaluated after another one in the same pass is never
\* of an earlier section type.
C24_SectionsInFixedOrder ==
    [][EvaluatedNextInPass => SectionRank(pp'.type) >= SectionRank(pp.type)]_vars

\* A reports promise has just been evaluated in a pass that evaluated a
\* delete_lines promise first and had an insert_lines promise in between.
C24_Witness ==
    /\ sched.pc = "run"
    /\ sched.next > 3
    /\ pp.type = "reports"
    /\ PassOrder(sched.bp)[1].type = "delete_lines"
    /\ PassOrder(sched.bp)[2].type = "insert_lines"
    /\ sched.passes[sched.pass].evals = sched.next - 1

\* C25: a signalled abort class terminates the enclosing edit_line bundle at
\* the next loop boundary: once the abort flag is set the evaluation has
\* returned false and released the lock, and no step evaluates a further
\* promise of the bundle or edits the line list, in this pass or a later one.
C25_AbortEndsBundle ==
    [][sched.aborted => /\ sched.pc = "done" /\ ~sched.ret /\ sched.holder = "free"
                        /\ sched'.passes = sched.passes
                        /\ edcontext' = edcontext
                        /\ pp' = pp]_vars

\* The bundle was aborted in its first pass with promises left to evaluate
\* in that pass.
C25_Witness ==
    /\ sched.aborted
    /\ sched.pass = 1
    /\ sched.next <= Len(PassOrder(sched.bp))
    /\ sched.passes[1].evals = sched.next - 1
    /\ Len(sched.passes) = 1

\* The last operation appended a constraint whose left-value, other than if
\* and ifvarclass, the promise already had.
ConstraintReplaced ==
    /\ policy.pc \in {"appended", "appended again"}
    /\ policy.last.lval \notin {"if", "ifvarclass"}
    /\ FirstConstraint(policy.last.before, policy.last.lval, "", 1) # 0

\* C26: appending a constraint to a promise whose left-value (not if or
\* ifvarclass) is already present replaces the old constraint in place: the
\* number of constraints stays the same, with one for that left-value, the
\* new value sits at the position of the first occurrence, and all other
\* constraints keep their positions.
C26_ReplacedInPlace ==
    ConstraintReplaced
    => LET conlist == policy.dom.bundles[1].sections[1].promises[1].conlist
           i == FirstConstraint(policy.last.before, policy.last.lval, "", 1)
       IN /\ Len(conlist) = Len(policy.last.before)
          /\ Cardinality({j \in DOMAIN conlist : conlist[j].lval = policy.last.lval}) = 1
          /\ conlist[i].lval = policy.last.lval
          /\ conlist[i].rval = policy.last.rval
          /\ \A j \in DOMAIN conlist : j # i => conlist[j] = policy.last.before[j]

\* A promise with two constraints had the second one replaced by a
\* different value, and a promise with two constraints the first one.
C26_Witness ==
    /\ ConstraintReplaced
    /\ Len(policy.last.before) = 2
    /\ FirstConstraint(policy.last.before, policy.last.lval, "", 1) = 2
    /\ policy.last.before[2].rval # policy.last.rval
    /\ policy.last.before[1].lval = "handle"

\* The promise types of the sections of a bundle, built-in and custom.
SectionTypes(bundle) ==
    [i \in 1..Len(bundle.sections) |-> bundle.sections[i].promise_type]
    \o [i \in 1..Len(bundle.custom_sections) |-> bundle.custom_sections[i].promise_type]

\* The section BundleAppendSection() returned last.
ReturnedSection ==
    IF policy.section.custom
    THEN policy.dom.bundles[1].custom_sections[policy.section.at]
    ELSE policy.dom.bundles[1].sections[policy.section.at]

\* The bundle had a section of the promise type appended last.
SectionExisted ==
    /\ policy.pc = "section"
    /\ \E i \in DOMAIN SectionTypes(policy.back.bundles[1]) :
           SectionTypes(policy.back.bundles[1])[i] = policy.section.promise_type

\* C27: after any sequence of section appends a bundle holds at most one
\* section per promise-type name, and appending a promise type that is
\* already present returns the existing section and adds nothing.
C27_OneSectionPerType ==
    /\ \A b \in DOMAIN policy.dom.bundles :
           LET types == SectionTypes(policy.dom.bundles[b])
           IN \A i \in DOMAIN types, j \in DOMAIN types : types[i] = types[j] => i = j
    /\ policy.pc = "section" => ReturnedSection.promise_type = policy.section.promise_type
    /\ SectionExisted => policy.dom = policy.back

\* A custom section that holds a promise was asked for again in a bundle
\* that also has built-in sections, and was returned.
C27_Witness ==
    /\ SectionExisted
    /\ policy.section.custom
    /\ ReturnedSection.promises # <<>>
    /\ Len(policy.dom.bundles[1].sections) >= 2

\* The partial check reported a redefinition of the i-th bundle or body.
Flagged(type, i) ==
    \E e \in DOMAIN policy.errors :
        /\ policy.errors[e].type = type
        /\ policy.errors[e].subject = i
        /\ policy.errors[e].message = "redefinition"

\* The i-th and the j-th of the definitions have the same namespace, type
\* and name.
Duplicates(definitions, i, j) ==
    /\ i # j
    /\ definitions[i].ns = definitions[j].ns
    /\ definitions[i].type = definitions[j].type
    /\ definitions[i].name = definitions[j].name

\* C28: validation flags every two bundles of a policy with the same
\* (namespace, type, name) and every two bodies with the same (namespace,
\* type, name), except that bodies of type "file" are never flagged; a
\* bundle or body that has no duplicate is not flagged.
C28_DuplicatesFlagged ==
    policy.pc = "partial"
    => /\ \A i \in DOMAIN policy.dom.bundles :
              Flagged("bundle", i)
              <=> \E j \in DOMAIN policy.dom.bundles : Duplicates(policy.dom.bundles, i, j)
       /\ \A i \in DOMAIN policy.dom.bodies :
              Flagged("body", i)
              <=> /\ policy.dom.bodies[i].type # "file"
                  /\ \E j \in DOMAIN policy.dom.bodies : Duplicates(policy.dom.bodies, i, j)

\* A policy with two bundles of one definition, two bodies of type "file"
\* of one definition has been validated: the bundles are flagged and the
\* bodies are not.
C28_Witness ==
    /\ policy.pc = "partial"
    /\ Len(policy.dom.bundles) = 2 /\ Duplicates(policy.dom.bundles, 1, 2)
    /\ Len(policy.dom.bodies) = 2 /\ Duplicates(policy.dom.bodies, 1, 2)
    /\ policy.dom.bodies[1].type = "file"
    /\ Flagged("bundle", 1) /\ Flagged("bundle", 2)
    /\ ~Flagged("body", 1)

\* The last call was FileChangesCheckAndUpdateHash() and wrote the digest of
\* the file to the database.
HashWritten ==
    /\ changes.last.op = "hash"
    /\ changes.last.open
    /\ changes.result = CHANGE
    /\ changes.db.hash[changes.last.file] = changes.disk[changes.last.file]
    /\ changes.db.hash[changes.last.file] # changes.last.prior

\* The step is a call of FileChangesCheckAndUpdateHash() for the path and
\* the digest of the last call.
HashCheckedAgain ==
    /\ changes'.last.op = "hash"
    /\ changes'.last.file = changes.last.file
    /\ changes'.disk = changes.disk

\* C29: immediately after FileChangesCheckAndUpdateHash() has written digest
\* d for a path, a second call for the same path, hash type and digest
\* reports "unchanged" (it returns false, and with the database open the
\* promise result is NOOP) and does not modify the record.
C29_UnchangedAfterWrite ==
    [][(HashWritten /\ HashCheckedAgain)
       => /\ ~changes'.last.ret
          /\ changes'.db = changes.db
          /\ changes'.last.open => changes'.result = NOOP]_vars

\* A call found the record equal to the digest of the file, which an earlier
\* call had written, and reported no change.
C29_Witness ==
    /\ changes.last.op = "hash"
    /\ changes.last.open
    /\ changes.last.prior # 0
    /\ changes.last.prior = changes.disk[changes.last.file]
    /\ changes.db.hash[changes.last.file] = changes.last.prior
    /\ ~changes.last.ret
    /\ changes.result = NOOP

\* The names of the sequence in ascending order of their bytes.
Ascending(files) ==
    \A i \in DOMAIN files, j \in DOMAIN files : i < j => StrLess(files[i], files[j])

\* The last call was FileChangesCheckAndUpdateDirectory() and was to persist
\* the listing: the database was open, update was set, the agent was free to
\* make changes, and the call did not fail.
ListingPersisted ==
    /\ changes.last.op = "directory"
    /\ changes.last.open
    /\ changes.last.update
    /\ ~dry_run
    /\ changes.result # FAIL

\* C30: whenever FileChangesCheckAndUpdateDirectory() persists a directory
\* listing, the listing read back from the database equals the on-disk set
\* given as input, sorted ascending.
C30_StoredListingIsSortedInput ==
    ListingPersisted
    => /\ Range(GetDirectoryListFromDatabase(changes.db)) = Range(changes.last.files)
       /\ Len(GetDirectoryListFromDatabase(changes.db)) = Len(changes.last.files)
       /\ Ascending(GetDirectoryListFromDatabase(changes.db))

SubstitutedLine(k) ==
    ReplaceInLine(pp.promiser[1], pp.a.replace_value, history[1].before[k], 0, 1,
                  pp.a.occurrences = "first", FALSE)

\* C32: for every line, replace_patterns performs at most 20 substitutions
\* on that line, whatever the pattern and the replacement: the substitution
\* loop ends, and a line that the promise rewrote is the outcome of at most
\* 20 substitutions.
C32_AtMostTwentySubstitutions ==
    (pp.type = "replace_patterns" /\ history # <<>>)
    => \A k \in DOMAIN history[1].before :
           /\ SubstitutedLine(k).cutoff - 1 <= 20
           /\ history[1].after[k] \in {history[1].before[k], SubstitutedLine(k).line_buff}

\* The loop made 20 substitutions on a line, with a replacement that the
\* pattern matches again, and the promise was interrupted.
C32_Witness ==
    /\ pp.type = "replace_patterns"
    /\ history # <<>>
    /\ history[1].lock
    /\ history[1].result = INTERRUPTED
    /\ \E k \in DOMAIN history[1].before :
           /\ SubstitutedLine(k).cutoff - 1 = 20
           /\ Len(SubstitutedLine(k).line_buff) = Len(history[1].before[k]) + 20

(***************************************************************************)
(* Class guards.  A class expression is a sequence of tokens: class names, *)
(* the operators "!", "&", "." and "|", and parentheses.  In this part     *)
(* policy holds the classes defined, the guarded items of a bundle in      *)
(* their order, and the items selected.                                    *)
(***************************************************************************)
RECURSIVE EvalOr(_, _, _)
RECURSIVE EvalAnd(_, _, _)
RECURSIVE EvalNot(_, _, _)

\* A class name, or one of the constants any, true and false.
EvalClassName(name, defined) ==
    CASE name \in {"any", "true"} -> TRUE
      [] name = "false" -> FALSE
      [] OTHER -> name \in defined

\* A class name or an expression in parentheses, from the token at pos: its
\* value and the position after it.
EvalPrimary(tokens, pos, defined) ==
    IF tokens[pos] = "("
    THEN [val |-> EvalOr(tokens, pos + 1, defined).val,
          pos |-> EvalOr(tokens, pos + 1, defined).pos + 1]
    ELSE [val |-> EvalClassName(tokens[pos], defined), pos |-> pos + 1]

EvalNot(tokens, pos, defined) ==
    IF tokens[pos] = "!"
    THEN [val |-> ~EvalNot(tokens, pos + 1, defined).val,
          pos |-> EvalNot(tokens, pos + 1, defined).pos]
    ELSE EvalPrimary(tokens, pos, defined)

\* A variant that takes "&" for "|".
EvalAndAsOr(tokens, pos, defined) ==
    LET lhs == EvalNot(tokens, pos, defined)
    IN IF lhs.pos <= Len(tokens) /\ tokens[lhs.pos] \in {"&", "."}
       THEN [val |-> lhs.val \/ EvalAnd(tokens, lhs.pos + 1, defined).val,
             pos |-> EvalAnd(tokens, lhs.pos + 1, defined).pos]
       ELSE lhs

EvalAnd(tokens, pos, defined) ==
    LET lhs == EvalNot(tokens, pos, defined)
    IN IF lhs.pos <= Len(tokens) /\ tokens[lhs.pos] \in {"&", "."}
       THEN [val |-> lhs.val /\ EvalAnd(tokens, lhs.pos + 1, defined).val,
             pos |-> EvalAnd(tokens, lhs.pos + 1, defined).pos]
       ELSE lhs

EvalOr(tokens, pos, defined) ==
    LET lhs == EvalAnd(tokens, pos, defined)
    IN IF lhs.pos <= Len(tokens) /\ tokens[lhs.pos] = "|"
       THEN [val |-> lhs.val \/ EvalOr(tokens, lhs.pos + 1, defined).val,
             pos |-> EvalOr(tokens, lhs.pos + 1, defined).pos]
       ELSE lhs

\* IsDefinedClass(): the class expression evaluated against the classes
\* defined.
IsDefinedClass(class, defined) == EvalOr(class, 1, defined).val

\* The guarded items whose guard holds, in their order.
SelectGuarded(items, defined) ==
    SelectSeq(items, LAMBDA guard : IsDefinedClass(guard, defined))

MaxItems == 3

\* The guards of the items: those of the policies of the two tests of
\* classfilterdata().
Guards ==
    { <<"role_1">>, <<"role_2">>, <<"(", "role_1", "|", "role_2", ")">>,
      <<"foo">>, <<"!", "foo">>, <<"foo", "&", "bar">>, <<"foo", "|", "bar">>,
      <<"bar">>, <<"!", "bar">>, <<"bar", "&", "baz">>, <<"bar", "|", "baz">>,
      <<"baz">>, <<"!", "baz">>, <<"foo", "&", "baz">>, <<"foo", "|", "baz">> }

InitClasses ==
    /\ pp = NoPromise
    /\ dry_run = FALSE
    /\ edcontext = [file_start |-> <<>>, num_edits |-> 0]
    /\ history = <<>>
    /\ sched = NoSchedule
    /\ changes = NoChanges
    /\ pkg = NoPackages
    /\ \E defined \in SUBSET {"role_2", "foo", "bar"} :
       \E items \in UNION { [1..n -> Guards] : n \in 0..MaxItems } :
           policy = [pc |-> "guarded", defined |-> defined, items |-> items,
                     selected |-> <<>>]

\* The items of the bundle whose guards hold are selected.
SelectGuardedItems ==
    /\ policy.pc = "guarded"
    /\ policy' = [policy EXCEPT !.pc = "selected",
                                !.selected = SelectGuarded(policy.items, policy.defined)]
    /\ UNCHANGED <<pp, dry_run, edcontext, history, sched, changes, pkg>>

NextClasses == SelectGuardedItems

SpecClasses == InitClasses /\ [][NextClasses]_vars

\* A guard of one of the forms a, !a, a&b, a|b and (a|b) holds.
GuardHolds(guard) ==
    CASE Len(guard) = 1 -> guard[1] \in policy.defined
      [] Len(guard) = 2 -> guard[2] \notin policy.defined
      [] Len(guard) = 3 /\ guard[2] = "&" ->
             guard[1] \in policy.defined /\ guard[3] \in policy.defined
      [] Len(guard) = 3 /\ guard[2] = "|" ->
             guard[1] \in policy.defined \/ guard[3] \in policy.defined
      [] Len(guard) = 5 -> guard[2] \in policy.defined \/ guard[4] \in policy.defined

\* The indices of the items whose guards hold.
HoldingItems == {i \in DOMAIN policy.items : GuardHolds(policy.items[i])}

\* C33: a class-guarded item is selected exactly when its guard evaluates
\* true against the classes defined, with a|b true iff a or b is defined,
\* a&b true iff both are and !a true iff a is not; the selected items keep
\* their order.  With only role_2 defined, of the guards role_1, role_2 and
\* (role_1|role_2) the second and the third are selected.
C33_GuardedItemsSelected ==
    policy.pc = "selected"
    => /\ Len(policy.selected) = Cardinality(HoldingItems)
       /\ \A k \in DOMAIN policy.selected :
              \E i \in HoldingItems :
                  /\ policy.selected[k] = policy.items[i]
                  /\ Cardinality({j \in HoldingItems : j < i}) = k - 1
       /\ ( /\ policy.defined = {"role_2"}
            /\ policy.items = << <<"role_1">>, <<"role_2">>,
                                 <<"(", "role_1", "|", "role_2", ")">> >> )
          => policy.selected = << <<"role_2">>, <<"(", "role_1", "|", "role_2", ")">> >>
       /\ ( /\ policy.defined = {"foo"}
            /\ policy.items = << <<"foo", "|", "bar">>, <<"bar", "|", "baz">>,
                                 <<"foo", "|", "baz">> >> )
          => policy.selected = << <<"foo", "|", "bar">>, <<"foo", "|", "baz">> >>

\* With only role_2 defined, the items guarded by role_2 and by
\* (role_1|role_2) were selected and the one guarded by role_1 was not.
C33_Witness ==
    /\ policy.pc = "selected"
    /\ policy.defined = {"role_2"}
    /\ policy.items = << <<"role_1">>, <<"role_2">>, <<"(", "role_1", "|", "role_2", ")">> >>
    /\ policy.selected = << <<"role_2">>, <<"(", "role_1", "|", "role_2", ")">> >>

(***************************************************************************)
(* The recheck of the constraints of a promise before it is evaluated.     *)
(* In this part policy holds EDIT_ANCHORS, the static list of the anchors  *)
(* seen (each with the name of its bundle), and calls, the promises        *)
(* rechecked in their order, each with whether the warning of              *)
(* non-convergence was logged for it.                                      *)
(***************************************************************************)
\* IsExpandable(): the string holds a variable reference $(...) or ${...}.
IsExpandable(str) ==
    \E i \in 1..Len(str) : \E j \in 1..Len(str) :
        /\ i + 1 < j
        /\ str[i] = "$"
        /\ \/ str[i + 1] = "(" /\ str[j] = ")"
           \/ str[i + 1] = "{" /\ str[j] = "}"

\* PromiseGetConstraintAsRval(): the right-value of the constraint with the
\* left-value when it is of the type, NullString otherwise.
PromiseGetConstraintAsRval(promise, lval, rtype) ==
    LET i == FirstConstraint(promise.conlist, lval, "", 1)
    IN IF i # 0 /\ promise.conlist[i].rval.type = rtype
       THEN promise.conlist[i].rval.item
       ELSE NullString

\* ReturnItemInClass(): whether the list has the item with the classes.
ReturnItemInClass(list, item, classes) ==
    \E i \in DOMAIN list : list[i].name = item /\ list[i].classes = classes

PrependItem(list, item, classes) == <<[name |-> item, classes |-> classes]>> \o list

\* PromiseRecheckAllConstraints() for a promise whose constraints are of the
\* right types: the anchors afterwards, and whether the warning was logged.
PromiseRecheckAllConstraints(anchors, promise) ==
    LET sp == PromiseGetConstraintAsRval(promise, "select_line_matching", "scalar")
        bun == promise.bundle.name
    IN IF promise.promise_type # "insert_lines" THEN [anchors |-> anchors, warned |-> FALSE]
       ELSE IF sp = NullString THEN [anchors |-> anchors, warned |-> FALSE]
       ELSE IF IsExpandable(sp) THEN [anchors |-> anchors, warned |-> FALSE]
       ELSE IF ReturnItemInClass(anchors, sp, bun)
       THEN [anchors |-> anchors, warned |-> TRUE]
       ELSE [anchors |-> PrependItem(anchors, sp, bun), warned |-> FALSE]

MaxRechecks == 3

\* A promise of an edit_line bundle, with a select_line_matching anchor when
\* one is given.
AnchoredPromise(id, ns, name, promise_type, anchor) ==
    [id |-> id, bundle |-> [ns |-> ns, name |-> name], promise_type |-> promise_type,
     conlist |-> IF anchor = <<>> THEN <<>>
                 ELSE <<ConstraintNew("select_line_matching", RvalScalar(anchor),
                                      "any", FALSE)>>]

RecheckedPromises ==
    { AnchoredPromise("p1", "default", "edit", "insert_lines", <<"a">>),
      AnchoredPromise("p2", "default", "edit", "insert_lines", <<"a">>),
      AnchoredPromise("p3", "default", "other", "insert_lines", <<"a">>),
      AnchoredPromise("p4", "default", "edit", "insert_lines", <<"$", "(", "x", ")">>),
      AnchoredPromise("p5", "default", "edit", "delete_lines", <<"a">>),
      AnchoredPromise("p6", "default", "edit", "insert_lines", <<"b">>),
      AnchoredPromise("p7", "default", "edit", "insert_lines", <<>>) }

InitRecheck ==
    /\ pp = NoPromise
    /\ dry_run = FALSE
    /\ edcontext = [file_start |-> <<>>, num_edits |-> 0]
    /\ history = <<>>
    /\ sched = NoSchedule
    /\ changes = NoChanges
    /\ pkg = NoPackages
    /\ policy = [pc |-> "recheck", EDIT_ANCHORS |-> <<>>, calls |-> <<>>]

\* A promise is rechecked: in a pass over its bundle, or in a later pass.
PromiseRecheckAllConstraintsCall ==
    /\ policy.pc = "recheck"
    /\ Len(policy.calls) < MaxRechecks
    /\ \E promise \in RecheckedPromises :
           LET r == PromiseRecheckAllConstraints(policy.EDIT_ANCHORS, promise)
           IN policy' = [policy EXCEPT
                  !.EDIT_ANCHORS = r.anchors,
                  !.calls = Append(@, [promise |-> promise, warned |-> r.warned])]
    /\ UNCHANGED <<pp, dry_run, edcontext, history, sched, changes, pkg>>

NextRecheck == PromiseRecheckAllConstraintsCall

SpecRecheck == InitRecheck /\ [][NextRecheck]_vars

\* The select_line_matching anchor of the promise of the k-th recheck, when
\* it is an insert_lines promise with an anchor without variable references;
\* <<>> otherwise.
AnchorOf(k) ==
    LET promise == policy.calls[k].promise
    IN IF /\ promise.promise_type = "insert_lines"
          /\ promise.conlist # <<>>
          /\ ~IsExpandable(promise.conlist[1].rval.item)
       THEN promise.conlist[1].rval.item
       ELSE <<>>

\* C34: the non-convergence warning for the select_line_matching anchor of
\* an insert_lines promise is raised exactly when that anchor has already
\* been used by another promise in the same bundle: not for the promise's
\* own earlier recheck, and not for a promise of a different bundle.
C34_WarnedForAnotherPromiseOnly ==
    policy.pc = "recheck"
    => \A k \in DOMAIN policy.calls :
           policy.calls[k].warned
           <=> /\ AnchorOf(k) # <<>>
               /\ \E j \in 1..(k - 1) :
                      /\ policy.calls[j].promise.id # policy.calls[k].promise.id
                      /\ policy.calls[j].promise.bundle = policy.calls[k].promise.bundle
                      /\ AnchorOf(j) = AnchorOf(k)

(***************************************************************************)
(* The expansion of a template file into a temporary bundle of             *)
(* insert_lines promises.  A line of the file is given by what the tests   *)
(* of the loop read from it: whether it starts with [%CFEngine, the        *)
(* operator and the bracket scanned after it (the operator as its name     *)
(* followed by "::" when it ends so), and its text.  In this part policy   *)
(* holds the template, and after the expansion the bundle and the result.  *)
(***************************************************************************)
MarkerLine(op, brack) == [marker |-> TRUE, op |-> op, brack |-> brack, text |-> <<>>]

TextLine(text) == [marker |-> FALSE, op |-> <<>>, brack |-> "", text |-> text]

\* A comparison of a size_t with a small constant: level is kept as the
\* representative nearest to zero of its value modulo 2^64, so a negative
\* representative stands for a value near SIZE_MAX.
SizeGreater(level, n) == level < 0 \/ level > n

\* StripTrailingNewline(): the string without its trailing newlines.
RECURSIVE StripTrailingNewline(_)
StripTrailingNewline(str) ==
    IF str # <<>> /\ str[Len(str)] = "\n"
    THEN StripTrailingNewline(SubSeq(str, 1, Len(str) - 1))
    ELSE str

\* The concatenation of the accumulated lines.
RECURSIVE JoinLines(_)
JoinLines(lines) == IF lines = <<>> THEN <<>> ELSE Head(lines) \o JoinLines(Tail(lines))

\* The classes defined during the expansion.
TemplateClasses == {"any"}

TemplatePromise(promiser, context, lineno) ==
    [promiser |-> promiser, classes |-> context, line |-> lineno,
     insert_type |-> "preserve_all_lines"]

TemplateRejected(st) ==
    [bundle |-> NullString, result |-> PromiseResultUpdate(st.result, INTERRUPTED)]

\* The test '++level > 1' at a BEGIN marker, on the level already incremented.
NestedBlock(level) == SizeGreater(level, 1)

\* The loop of MakeTemporaryBundleFromTemplate() over the lines of the file
\* after the first lineno of them.
RECURSIVE TemplateLoop(_, _, _)
TemplateLoop(template, lineno, st) ==
    IF lineno = Len(template)
    THEN [bundle |-> st.promises, result |-> st.result]
    ELSE
    LET n == lineno + 1
        buffer == template[n]
    IN IF buffer.marker
       THEN IF buffer.brack # "%]" THEN TemplateRejected(st)
            ELSE IF buffer.op = <<"BEGIN">>
            THEN IF NestedBlock(st.level + 1) THEN TemplateRejected(st)
                 ELSE TemplateLoop(template, n,
                          [st EXCEPT !.stack = <<st.context>> \o @, !.level = @ + 1])
            ELSE
            LET st1 == IF buffer.op = <<"END">>
                       THEN [st EXCEPT
                                !.level = @ - 1,
                                !.context = IF st.stack # <<>> THEN Head(st.stack) ELSE @,
                                !.stack = IF st.stack # <<>> THEN Tail(@) ELSE @]
                       ELSE st
            IN IF buffer.op[Len(buffer.op)] = "::"
               THEN TemplateLoop(template, n,
                        [st1 EXCEPT !.context = SubSeq(buffer.op, 1, Len(buffer.op) - 1)])
               ELSE TemplateLoop(template, n,
                        [st1 EXCEPT
                            !.promises = Append(@, TemplatePromise(
                                StripTrailingNewline(JoinLines(st1.lines)), st1.context, n)),
                            !.lines = <<>>])
       ELSE IF IsDefinedClass(st.context, TemplateClasses)
            THEN IF SizeGreater(st.level, 0)
                 THEN TemplateLoop(template, n, [st EXCEPT !.lines = Append(@, buffer.text)])
                 ELSE TemplateLoop(template, n,
                          [st EXCEPT !.promises = Append(@, TemplatePromise(
                               StripTrailingNewline(buffer.text), st.context, n))])
            ELSE TemplateLoop(template, n, st)

\* MakeTemporaryBundleFromTemplate() on a template file that was opened: the
\* promises of the bundle returned (NullString when none is) and the result.
MakeTemporaryBundleFromTemplate(template, result) ==
    TemplateLoop(template, 0,
        [promises |-> <<>>, lines |-> <<>>, stack |-> <<>>, context |-> <<"any">>,
         level |-> 0, result |-> result])

MaxTemplateLines == 4

TemplateLines ==
    { MarkerLine(<<"BEGIN">>, "%]"), MarkerLine(<<"END">>, "%]"),
      MarkerLine(<<"nope", "::">>, "%]"), MarkerLine(<<"BEGIN">>, ""),
      TextLine(<<"a", "\n">>) }

Templates == UNION { [1..n -> TemplateLines] : n \in 0..MaxTemplateLines }

InitTemplate ==
    /\ pp = NoPromise
    /\ dry_run = FALSE
    /\ edcontext = [file_start |-> <<>>, num_edits |-> 0]
    /\ history = <<>>
    /\ sched = NoSchedule
    /\ changes = NoChanges
    /\ pkg = NoPackages
    /\ \E template \in Templates :
           policy = [pc |-> "template", template |-> template,
                     bundle |-> NullString, result |-> NOOP]

MakeTemporaryBundleFromTemplateCall ==
    /\ policy.pc = "template"
    /\ LET r == MakeTemporaryBundleFromTemplate(policy.template, policy.result)
       IN policy' = [policy EXCEPT !.pc = "expanded", !.bundle = r.bundle,
                                   !.result = r.result]
    /\ UNCHANGED <<pp, dry_run, edcontext, history, sched, changes, pkg>>

NextTemplate == MakeTemporaryBundleFromTemplateCall

SpecTemplate == InitTemplate /\ [][NextTemplate]_vars

IsBegin(line) == line.marker /\ line.brack = "%]" /\ line.op = <<"BEGIN">>

IsEnd(line) == line.marker /\ line.brack = "%]" /\ line.op = <<"END">>

\* The number of blocks begun and not yet ended after the first k lines.
RECURSIVE OpenBlocks(_, _)
OpenBlocks(template, k) ==
    IF k = 0 THEN 0
    ELSE LET before == OpenBlocks(template, k - 1)
         IN IF IsBegin(template[k]) THEN before + 1
            ELSE IF IsEnd(template[k]) /\ before > 0 THEN before - 1
            ELSE before

\* A BEGIN marker is read at line k while a block is open: every marker
\* before it is well formed, so the reading gets to the line.
NestedAt(template, k) ==
    /\ IsBegin(template[k])
    /\ OpenBlocks(template, k - 1) > 0
    /\ \A j \in 1..(k - 1) : template[j].marker => template[j].brack = "%]"

\* C35: nested template blocks are forbidden for every sequence of markers:
\* whenever a BEGIN marker is read while a previously read BEGIN has not yet
\* been closed by an END marker, the expansion is rejected with INTERRUPTED
\* and yields no bundle, also in a template with an END marker with no open
\* block.
C35_NestedBlocksRejected ==
    (policy.pc = "expanded" /\ \E k \in DOMAIN policy.template : NestedAt(policy.template, k))
    => policy.result = INTERRUPTED /\ policy.bundle = NullString

\* C36: whenever CheckAndUpdateHash finds that the stored digest differs
\* from the new digest it logs the change event: a content-changed record
\* (code C) for the path is appended to the change log.
C36_DifferingHashLogged ==
    HashDiffered => "C" \in changes.log

(***************************************************************************)
(* The operations that take locks, together: the single edit-line          *)
(* operations, the evaluation of an edit_line bundle, and the package      *)
(* promises and cache refreshes of an agent run.                           *)
(***************************************************************************)
\* Insertions that leave VerifyLineInsertions() early: one anchored at a
\* line, one in a region, and one whose attributes contradict each other.
InsertAnchored ==
    [type |-> "insert_lines", promiser |-> <<Lb>>,
     a |-> [DefaultAttributes EXCEPT !.line_matching = La]]

InsertInRegionS ==
    [type |-> "insert_lines", promiser |-> <<Lb>>,
     a |-> [DefaultAttributes EXCEPT !.haveregion = TRUE, !.select_start = <<"s">>]]

InsertInsane ==
    [type |-> "insert_lines", promiser |-> <<Lb>>,
     a |-> [DefaultAttributes EXCEPT !.insert_match = <<"exact_match", "ignore_leading">>]]

LockBundles ==
    { [delete_lines |-> d, insert_lines |-> i] :
      d \in {<<>>, <<DeleteA>>},
      i \in {<<InsertA>>, <<InsertAnchored>>, <<InsertInRegionS>>, <<InsertInsane>>,
             <<InsertA, InsertAnchored>>} }

InitLocks ==
    \/ /\ pp = NoPromise
       /\ dry_run \in BOOLEAN
       /\ \E f \in ListsOf({La, Lb}, 1) : edcontext = [file_start |-> f, num_edits |-> 0]
       /\ history = <<>>
       /\ \E bp \in LockBundles, holder \in {"free", "other"} :
             sched = [pc |-> "start", bp |-> bp, holder |-> holder, acquired |-> FALSE,
                      pass |-> 0, next |-> 0, passes |-> <<>>, ret |-> FALSE,
                      first |-> edcontext.file_start, aborted |-> FALSE,
                      locks |-> NoLocks, promise_locks |-> NoLocks]
       /\ changes = NoChanges
       /\ pkg = NoPackages
       /\ policy = NoPolicy
    \/ InitPackages

NextLocks ==
    \/ sched.pc # "none" /\ NextSchedule
    \/ pkg.pc # "none" /\ NextPackages

SpecLocks == InitLocks /\ [][NextLocks]_vars

Balanced(locks) == locks.acquired = locks.yielded /\ locks.acquired <= 1

FinishedWithEdits ==
    /\ changes.finish.called
    /\ changes.finish.in_memory # changes.finish.before

DirectoryUnchangedWithoutUpdate ==
    /\ changes.last.op = "directory"
    /\ changes.last.open
    /\ ~changes.last.update
    /\ changes.db.dir # <<>>
    /\ SeqSoftSort(changes.last.files) = GetDirectoryListFromDatabase(changes.db)

\* C39: CheckAndUpdateDirectory called with update_flag clear on a
\* directory whose on-disk set equals the stored listing reports no
\* failure: its outcome is NOOP, not FAIL, and no database record is
\* modified.
C39_UnchangedDirectoryIsNoop ==
    DirectoryUnchangedWithoutUpdate
    => changes.result = NOOP /\ changes.last.gone = {}

(***************************************************************************)
(* Refreshes of the installed cache, one after the other, each with the    *)
(* provider's answer of the moment.  In this part pkg holds the installed  *)
(* cache, the response last stored in it, and the entries of the           *)
(* responses stored before.                                                *)
(***************************************************************************)
MaxRefreshes == 2

MaxEntries == 2

\* What the provider may list for a package; the last is an entry without
\* its architecture.
ListedEntries ==
    { <<"a", "1", "x">>, <<"a", "2", "y">>, <<"b", "1", "x">>, <<"b", "1", NullString>> }

\* The lines of the response for an entry.
EntryLines(e) ==
    <<[key |-> "Name", value |-> e[1]], [key |-> "Version", value |-> e[2]]>>
    \o (IF e[3] = NullString THEN <<>> ELSE <<[key |-> "Architecture", value |-> e[3]]>>)

RECURSIVE ResponseOf(_)
ResponseOf(entries) ==
    IF entries = <<>> THEN <<>>
    ELSE EntryLines(Head(entries)) \o ResponseOf(Tail(entries))

ListInstalledResponses ==
    { ResponseOf(entries) :
          entries \in UNION { [1..n -> ListedEntries] : n \in 0..MaxEntries } }

InitRefresh ==
    /\ pp = NoPromise
    /\ dry_run = FALSE
    /\ edcontext = [file_start |-> <<>>, num_edits |-> 0]
    /\ history = <<>>
    /\ sched = NoSchedule
    /\ changes = NoChanges
    /\ policy = NoPolicy
    /\ pkg = [pc |-> "refresh", installed |-> {}, has_list |-> FALSE, stored |-> <<>>,
              earlier |-> {}, refreshes |-> 0]

\* UpdateCache() of the installed packages: the provider is asked for its
\* list, and the list is stored when it answers and the database opens.
RefreshInstalledCache ==
    /\ pkg.pc = "refresh"
    /\ pkg.refreshes < MaxRefreshes
    /\ \E response \in ListInstalledResponses, communicated \in BOOLEAN, open \in BOOLEAN :
           LET updated == UpdateCacheFrom(pkg.installed, open, communicated, response,
                                          "installed")
               written == communicated /\ open
           IN pkg' = [pkg EXCEPT
                  !.installed = updated.db,
                  !.has_list = @ \/ written,
                  !.stored = IF written THEN response ELSE @,
                  !.earlier = IF written THEN @ \cup Entries(pkg.stored) ELSE @,
                  !.refreshes = @ + 1]
    /\ UNCHANGED <<pp, dry_run, edcontext, history, sched, changes, policy>>

NextRefresh == RefreshInstalledCache

SpecRefresh == InitRefresh /\ [][NextRefresh]_vars

\* The keys WritePackageDataToDB() writes for an installed entry.
KeyForms(e) ==
    { <<"N<", e[1], ">">>, <<"N<", e[1], ">V<", e[2], ">">>,
      <<"N<", e[1], ">A<", e[3], ">">>, <<"N<", e[1], ">V<", e[2], ">A<", e[3], ">">> }

\* C40: after any sequence of cache refreshes the installed cache holds
\* exactly the entries of the most recent list-installed response: no key
\* written for an entry of an earlier response that is missing from the
\* latest response survives the refresh, in any of its key forms (name,
\* name+version, name+arch, name+version+arch).
C40_CacheHoldsLatestResponse ==
    pkg.pc = "refresh"
    => { p[1] : p \in pkg.installed }
           = IF pkg.has_list
             THEN UNION { KeyForms(e) : e \in Entries(pkg.stored) } \cup {<<"<inventory>">>}
             ELSE {}

\* An entry of an earlier response is missing from the latest one, which
\* lists another package, and none of its keys is in the cache.
C40_Witness ==
    /\ pkg.pc = "refresh"
    /\ pkg.refreshes = 2
    /\ <<"a", "1", "x">> \in pkg.earlier
    /\ Entries(pkg.stored) = {<<"b", "1", "x">>}
    /\ \A k \in KeyForms(<<"a", "1", "x">>) : ~HasKeyDB(pkg.installed, k)
    /\ HasKeyDB(pkg.installed, <<"N<", "b", ">">>)

=============================================================================
